---------------------------- MODULE Spec2Model ----------------------------
(***************************************************************************)
(* A model of the feature-engineering and sentiment-aggregation core of    *)
(* the QuantML trading system:                                             *)
(*   src/src/data_processing/data_preprocessing.py                         *)
(*   src/src/data_collection/data_collection_news.py                       *)
(*   src/src/main.py                                                       *)
(*                                                                         *)
(* Numbers.  A float is modelled as an exact fraction [n |-> , d |-> ]     *)
(* in lowest terms with d > 0.  The IEEE specials use d = 0:               *)
(*   NaN = 0/0,  +inf = 1/0,  -inf = -1/0.                                 *)
(* Rounding error of binary floating point is modelled only where a       *)
(* comparison is an equality in exact arithmetic (detect_outliers); the    *)
(* explicit decimal rounding the code asks for (DataFrame.round(4)) is     *)
(* modelled in full.                                                       *)
(***************************************************************************)
EXTENDS Integers, Sequences, FiniteSets, TLC

VARIABLES
    pc,               \* position of the running script / call
    series,           \* argument of calculate_outlier_score
    outlier_scores,   \* its return value: a Series as a sequence of [idx, val]
    threshold,        \* argument of detect_outliers (series is the other one)
    outliers,         \* its return value: the boolean mask, as [idx, val]
    articles,         \* argument of aggregate_daily_sentiment: List[Dict]
    sentiment_df,     \* its local DataFrame df, one row per article
    daily_sentiment,  \* its return value: the summary rows, in row order
    article,          \* arguments of _is_relevant_article: the NewsAPI article
    company_info,     \*   and the company information
    is_relevant,      \* its return value
    read_df,          \* the table as pd.read_excel returned it (line 184)
    df,               \* the table object handed to normalize_price_movements
    unfilled_df,      \* that table as it stood before the fill of line 165
    warnings,         \* the columns and features a warning was printed for
    raised,           \* normalize_price_movements ended in an exception
    stock_files,      \* data_preprocessing.py: the files glob found (line 172)
    file_path,        \* position of the file loop in stock_files (line 174)
    xls,              \* the workbook opened last: its sheets, in order
    sheet_name,       \* position of the sheet loop in xls (line 182)
    attempted,        \* the files the loop has entered, in order
    processed_files,  \* the CSV files written by line 199
    errors,           \* the files the handler of line 202 reported
    economic,         \* how the economic indicators block ended
    api_keys,         \* main.py: the keys collect_api_keys returned
    started,          \* the scripts run_script has run, with their outcome
    failed_steps,     \* main's list failed_steps
    summary,          \* the branch of the pipeline summary that printed
    success           \* what main returned

vars == <<pc, series, outlier_scores, threshold, outliers, articles, sentiment_df,
          daily_sentiment, article, company_info, is_relevant, read_df, df,
          unfilled_df, warnings, raised, stock_files, file_path, xls, sheet_name,
          attempted, processed_files, errors, economic, api_keys, started,
          failed_steps, summary, success>>

outlierVars == <<series, outlier_scores, threshold, outliers>>

sentimentVars == <<articles, sentiment_df, daily_sentiment>>

relevanceVars == <<article, company_info, is_relevant>>

\* The variables of the calls that are not running.
IdleOutlier ==
    series = <<>> /\ outlier_scores = <<>> /\ threshold = 0 /\ outliers = <<>>

IdleSentiment == articles = <<>> /\ sentiment_df = <<>> /\ daily_sentiment = <<>>

IdleRelevance == article = <<>> /\ company_info = <<>> /\ is_relevant = FALSE

priceVars == <<read_df, df, unfilled_df, warnings, raised>>

IdlePrice ==
    /\ read_df = <<>>
    /\ df = <<>>
    /\ unfilled_df = <<>>
    /\ warnings = <<>>
    /\ raised = FALSE

scriptVars == <<stock_files, file_path, xls, sheet_name, attempted, processed_files,
                errors, economic>>

IdleScript ==
    /\ stock_files = <<>>
    /\ file_path = 0
    /\ xls = <<>>
    /\ sheet_name = 0
    /\ attempted = <<>>
    /\ processed_files = <<>>
    /\ errors = <<>>
    /\ economic = "pending"

mainVars == <<api_keys, started, failed_steps, summary, success>>

IdleMain ==
    /\ api_keys = {}
    /\ started = <<>>
    /\ failed_steps = <<>>
    /\ summary = "none"
    /\ success = "running"

---------------------------------------------------------------------------
(* Exact arithmetic with the IEEE special values.                          *)

RECURSIVE GCD(_, _)
GCD(a, b) == IF b = 0 THEN a ELSE GCD(b, a % b)

Abs(i) == IF i < 0 THEN -i ELSE i

Sign(i) == IF i > 0 THEN 1 ELSE IF i < 0 THEN -1 ELSE 0

Frac(n, d) ==
    IF d = 0 THEN [n |-> Sign(n), d |-> 0]
    ELSE LET g == GCD(Abs(n), Abs(d))
         IN  [n |-> Sign(d) * (n \div g), d |-> Abs(d) \div g]

Num(i) == [n |-> i, d |-> 1]

NaN == [n |-> 0, d |-> 0]

PosInf == [n |-> 1, d |-> 0]

NegInf == [n |-> -1, d |-> 0]

IsNaN(x) == x.d = 0 /\ x.n = 0

IsInf(x) == x.d = 0 /\ x.n # 0

IsFinite(x) == x.d # 0

RNeg(x) == [n |-> -x.n, d |-> x.d]

RAbs(x) == [n |-> Abs(x.n), d |-> x.d]

RAdd(x, y) ==
    IF IsNaN(x) \/ IsNaN(y) THEN NaN
    ELSE IF IsInf(x) /\ IsInf(y) THEN (IF x.n = y.n THEN x ELSE NaN)
    ELSE IF IsInf(x) THEN x
    ELSE IF IsInf(y) THEN y
    ELSE LET g == GCD(x.d, y.d)
         IN  Frac(x.n * (y.d \div g) + y.n * (x.d \div g), (x.d \div g) * y.d)

RSub(x, y) == RAdd(x, RNeg(y))

RMul(x, y) ==
    IF IsNaN(x) \/ IsNaN(y) THEN NaN
    ELSE IF IsInf(x) \/ IsInf(y)
         THEN (IF x.n = 0 \/ y.n = 0 THEN NaN
               ELSE [n |-> Sign(x.n) * Sign(y.n), d |-> 0])
    ELSE IF x.n = 0 \/ y.n = 0 THEN Num(0)
    ELSE LET g == GCD(Abs(x.n), y.d)
             h == GCD(Abs(y.n), x.d)
         IN  Frac((x.n \div g) * (y.n \div h), (x.d \div h) * (y.d \div g))

\* Float division as numpy does it: x/0 is +-inf, 0/0 and inf/inf are NaN.
RDiv(x, y) ==
    IF IsNaN(x) \/ IsNaN(y) THEN NaN
    ELSE IF IsInf(y) THEN (IF IsInf(x) THEN NaN ELSE Num(0))
    ELSE IF IsInf(x) THEN (IF y.n < 0 THEN RNeg(x) ELSE x)
    ELSE IF y.n = 0 THEN Frac(x.n, 0)
    ELSE RMul(x, Frac(y.d, y.n))

\* Comparisons: every comparison with NaN is False.
RLt(x, y) ==
    /\ ~IsNaN(x)
    /\ ~IsNaN(y)
    /\ x # y
    /\ IF IsInf(x) THEN x.n < 0
       ELSE IF IsInf(y) THEN y.n > 0
       ELSE LET g == GCD(x.d, y.d)
            IN  x.n * (y.d \div g) < y.n * (x.d \div g)

RGt(x, y) == RLt(y, x)

RLe(x, y) == ~IsNaN(x) /\ ~IsNaN(y) /\ ~RLt(y, x)

\* Integer square root (floor), by bisection on lo..hi.
RECURSIVE ISqrtIn(_, _, _)
ISqrtIn(k, lo, hi) ==
    IF lo >= hi THEN lo
    ELSE LET mid == (lo + hi + 1) \div 2
         IN  IF mid * mid <= k THEN ISqrtIn(k, mid, hi)
             ELSE ISqrtIn(k, lo, mid - 1)

\* 46340 is the largest root whose square fits the checker's integers.
ISqrt(k) == ISqrtIn(k, 0, IF k < 46340 THEN k ELSE 46340)

\* np.sqrt of a fraction whose root is itself a fraction; NaN stands for a
\* root that is not representable here.
RSqrt(x) ==
    IF IsNaN(x) \/ x.n < 0 THEN NaN
    ELSE IF IsInf(x) THEN x
    ELSE LET rn == ISqrt(x.n)
             rd == ISqrt(x.d)
         IN  IF rn * rn = x.n /\ rd * rd = x.d THEN Frac(rn, rd) ELSE NaN

---------------------------------------------------------------------------
(* pandas Series: a sequence of [idx |-> row label, val |-> float].        *)
(* A column of a table is a plain sequence of floats, row i at index i.    *)

AsSeries(col) == [i \in 1..Len(col) |-> [idx |-> i, val |-> col[i]]]

\* The series with its missing values left in.
dropna_keep_all(s) == s

\* Series.dropna(): the non-missing elements under their own index.
dropna(s) == SelectSeq(s, LAMBDA e : ~IsNaN(e.val))

\* The sum of vals[lo..hi], halving the range.
RECURSIVE SumRange(_, _, _)
SumRange(vals, lo, hi) ==
    IF lo > hi THEN Num(0)
    ELSE IF lo = hi THEN vals[lo]
    ELSE LET mid == (lo + hi) \div 2
         IN  RAdd(SumRange(vals, lo, mid), SumRange(vals, mid + 1, hi))

SumVals(s) == SumRange([i \in 1..Len(s) |-> s[i].val], 1, Len(s))

\* np.mean: NaN for an empty series (0/0).
np_mean(s) == RDiv(SumVals(s), Num(Len(s)))

\* The variance with divisor n - 1 (ddof = 1).
sample_var(s) ==
    LET m == np_mean(s)
        sq == [i \in 1..Len(s) |-> RMul(RSub(s[i].val, m), RSub(s[i].val, m))]
    IN  RDiv(SumRange(sq, 1, Len(s)), Num(Len(s) - 1))

\* np.std (ddof = 0) squared: the population variance.
np_var(s) ==
    LET m == np_mean(s)
        sq == [i \in 1..Len(s) |->
                 [idx |-> s[i].idx,
                  val |-> RMul(RSub(s[i].val, m), RSub(s[i].val, m))]]
    IN  np_mean(sq)

\* Series.min / Series.max skip missing values; NaN when nothing is left.
MinVals(s) ==
    LET present == dropna(s)
    IN  IF present = <<>> THEN NaN
        ELSE present[CHOOSE i \in 1..Len(present) :
                        \A j \in 1..Len(present) : ~RLt(present[j].val, present[i].val)].val

MaxVals(s) ==
    LET present == dropna(s)
    IN  IF present = <<>> THEN NaN
        ELSE present[CHOOSE i \in 1..Len(present) :
                        \A j \in 1..Len(present) : ~RGt(present[j].val, present[i].val)].val

---------------------------------------------------------------------------
(* data_preprocessing.py: the outlier scoring primitive.                   *)

\* |x - mean| for every element: the z-score multiplied by std.  std is a
\* square root, so the z-scores are kept as the pair (abs_dev, std^2); std > 0
\* is a common positive factor, hence comparing, min and max of the z-scores
\* are those of abs_dev, and (z - min_z) / (max_z - min_z) is
\* (abs_dev - min_dev) / (max_dev - min_dev).
abs_dev(s, mean) ==
    [i \in 1..Len(s) |-> [idx |-> s[i].idx, val |-> RAbs(RSub(s[i].val, mean))]]

zeros_like(s) == [i \in 1..Len(s) |-> [idx |-> s[i].idx, val |-> Num(0)]]

ScaledScores(dev, min_dev, max_dev) ==
    [i \in 1..Len(dev) |->
        [idx |-> dev[i].idx,
         val |-> RDiv(RSub(dev[i].val, min_dev), RSub(max_dev, min_dev))]]

\* The z-scores themselves: abs_dev / std, with std = sqrt(variance).
RawZScores(dev, variance) ==
    [i \in 1..Len(dev) |->
        [idx |-> dev[i].idx, val |-> RDiv(dev[i].val, RSqrt(variance))]]

\* calculate_outlier_score without the max_z > min_z guard of line 93.
calculate_outlier_score_unguarded(s) ==
    LET series_no_nan == dropna(s)
        mean == np_mean(series_no_nan)
        variance == np_var(series_no_nan)
        dev == abs_dev(series_no_nan, mean)
    IN  IF RGt(variance, Num(0))
        THEN ScaledScores(dev, MinVals(dev), MaxVals(dev))
        ELSE zeros_like(series_no_nan)

calculate_outlier_score(s) ==
    LET series_no_nan == dropna(s)
        mean == np_mean(series_no_nan)
        variance == np_var(series_no_nan)
    IN  IF RGt(variance, Num(0))
        THEN LET dev == abs_dev(series_no_nan, mean)
                 min_z == MinVals(dev)
                 max_z == MaxVals(dev)
             IN  IF RGt(max_z, min_z)
                 THEN ScaledScores(dev, min_z, max_z)
                 ELSE RawZScores(dev, variance)
        ELSE zeros_like(series_no_nan)

\* z > threshold with the threshold left unsquared in the comparison of the
\* squares.
ZAbove_threshold_unsquared(dev, variance, t) ==
    RGt(RMul(dev, dev), RMul(Num(t), variance))

\* z > threshold for z = dev / sqrt(variance), dev >= 0, variance > 0 and
\* threshold >= 0: the squares compared.
ZAbove(dev, variance, t) == RGt(RMul(dev, dev), RMul(Num(t * t), variance))

\* A value binary floating point holds exactly: a fraction whose denominator
\* is a power of two (the numerators of the model are short).
RECURSIVE IsPowerOfTwo(_)
IsPowerOfTwo(k) == k = 1 \/ (k > 1 /\ k % 2 = 0 /\ IsPowerOfTwo(k \div 2))

Representable(x) == IsFinite(x) /\ IsPowerOfTwo(x.d)

\* z equals the threshold in exact arithmetic and is computed through a mean
\* or a variance that floating point rounds: the quotient of line 63 then
\* lands on the threshold or on either side of it, as the rounding of the
\* sums (whose order is the library's), of the root and of the quotient
\* decides.  With a representable mean and variance every step is exact
\* (the root is then dev / threshold) and the quotient is the threshold.
ZRounded(dev, mean, variance, t) ==
    /\ RMul(dev, dev) = RMul(Num(t * t), variance)
    /\ ~(Representable(mean) /\ Representable(variance))

\* detect_outliers with the sample standard deviation (ddof = 1).
detect_outliers_sample_std(s, t) ==
    LET series_no_nan == dropna(s)
        mean == np_mean(series_no_nan)
        variance == sample_var(series_no_nan)
        dev == abs_dev(series_no_nan, mean)
    IN  {[i \in 1..Len(series_no_nan) |->
            [idx |-> series_no_nan[i].idx,
             val |-> IF RGt(variance, Num(0)) THEN ZAbove(dev[i].val, variance, t)
                     ELSE 0 > t]]}

\* detect_outliers (lines 60-64): the mask z_scores > threshold over the
\* non-missing values, as the set of the masks the call may return: one
\* for every choice of the positions, among those decided by rounding, where
\* the computed z-score came out above the threshold.
detect_outliers(s, t) ==
    LET series_no_nan == dropna(s)
        mean == np_mean(series_no_nan)
        variance == np_var(series_no_nan)
        dev == abs_dev(series_no_nan, mean)
        positive == RGt(variance, Num(0))
        rounded == IF positive /\ ~(Representable(mean) /\ Representable(variance))
                   THEN {i \in 1..Len(series_no_nan) :
                            ZRounded(dev[i].val, mean, variance, t)}
                   ELSE {}
    IN  {[i \in 1..Len(series_no_nan) |->
            [idx |-> series_no_nan[i].idx,
             val |-> IF positive
                     THEN ZAbove(dev[i].val, variance, t) \/ i \in up
                     ELSE 0 > t]] : up \in SUBSET rounded}

---------------------------------------------------------------------------
(* Bounds of the outlier-scoring inputs.                                   *)

MaxSeriesLen == 4

MaxValue == 2

MaxPadded == 13

\* threshold=3, the default of detect_outliers.
DefaultThreshold == 3

SeriesValues == {NaN, PosInf} \cup {Frac(i, 2) : i \in -MaxValue..MaxValue}

RECURSIVE SeqsUpTo(_, _)
SeqsUpTo(S, k) ==
    IF k = 0 THEN {<<>>}
    ELSE LET shorter == SeqsUpTo(S, k - 1)
         IN  shorter \cup {Append(q, v) : q \in {r \in shorter : Len(r) = k - 1}, v \in S}

\* Series given as a whole: nine and eight equal values followed by one
\* other value.
ListedSeries ==
    << [i \in 1..10 |-> IF i = 10 THEN Num(7) ELSE Num(0)],
       [i \in 1..9 |-> IF i = 9 THEN Num(7) ELSE Num(0)] >>

InitOutlier ==
    /\ pc = "call"
    /\ IdleScript
    /\ IdleMain
    /\ series \in {AsSeries(col) : col \in SeqsUpTo(SeriesValues, MaxSeriesLen)}
    /\ outlier_scores = <<>>
    /\ threshold = 0
    /\ outliers = <<>>
    /\ IdleSentiment
    /\ IdleRelevance
    /\ IdlePrice

\* A longer series: the last value of a short one repeated up to MaxPadded
\* values.
PadSeries ==
    /\ pc = "call"
    /\ Len(series) >= 1
    /\ Len(series) < MaxSeriesLen
    /\ series' = [i \in 1..MaxPadded |->
                     [idx |-> i,
                      val |-> IF i <= Len(series) THEN series[i].val
                              ELSE series[Len(series)].val]]
    /\ pc' = "padded"
    /\ UNCHANGED <<scriptVars, mainVars, outlier_scores, threshold, outliers, sentimentVars, relevanceVars,
                   priceVars>>

\* The series is one of the listed ones.
ReadListedSeries(k) ==
    /\ pc = "call"
    /\ series = <<>>
    /\ series' = AsSeries(ListedSeries[k])
    /\ pc' = "padded"
    /\ UNCHANGED <<scriptVars, mainVars, outlier_scores, threshold, outliers, sentimentVars,
                   relevanceVars, priceVars>>

CalculateOutlierScore ==
    /\ pc \in {"call", "padded"}
    /\ outlier_scores' = calculate_outlier_score(series)
    /\ pc' = "scored"
    /\ UNCHANGED <<scriptVars, mainVars, series, threshold, outliers, sentimentVars, relevanceVars, priceVars>>

\* detect_outliers(series) with the default threshold, or
\* detect_outliers(series, threshold=1).
DetectOutliers(t) ==
    /\ pc \in {"call", "padded"}
    /\ threshold' = t
    /\ outliers' \in detect_outliers(series, t)
    /\ pc' = "detected"
    /\ UNCHANGED <<scriptVars, mainVars, series, outlier_scores, sentimentVars, relevanceVars, priceVars>>

NextOutlier ==
    \/ PadSeries
    \/ \E k \in 1..Len(ListedSeries) : ReadListedSeries(k)
    \/ CalculateOutlierScore
    \/ \E t \in {1, DefaultThreshold} : DetectOutliers(t)

SpecOutlier == InitOutlier /\ [][NextOutlier]_vars

---------------------------------------------------------------------------
(* Decimal rounding (DataFrame.round(4)): to the nearest multiple of       *)
(* 10^-4, ties to the even one.  The square root of the variance needs     *)
(* products beyond the checker's integers, so those are compared as        *)
(* base-10^4 digit strings.                                                *)

Base == 10000

Digits(k) == <<k % Base, (k \div Base) % Base, k \div (Base * Base)>>

\* Sum of the digit products that land on digit position k (1 = lowest).
Conv(a, b, k) ==
    LET Term(i) == IF k + 1 - i \in 1..3 THEN a[i] * b[k + 1 - i] ELSE 0
    IN  Term(1) + Term(2) + Term(3)

RECURSIVE Carry(_, _, _, _)
Carry(a, b, k, c) ==
    IF k > 6 THEN <<>>
    ELSE LET t == Conv(a, b, k) + c
         IN  <<t % Base>> \o Carry(a, b, k + 1, t \div Base)

\* x * y for 0 <= x, y < 2^31, as six base-10^4 digits, lowest first.
BigMul(x, y) == Carry(Digits(x), Digits(y), 1, 0)

RECURSIVE BigLeFrom(_, _, _)
BigLeFrom(u, v, k) ==
    IF k = 0 THEN TRUE
    ELSE IF u[k] # v[k] THEN u[k] < v[k]
    ELSE BigLeFrom(u, v, k - 1)

BigLe(u, v) == BigLeFrom(u, v, 6)

\* Round-half-even of the integer quotient p / q, q > 0, p >= 0.
RoundDiv(p, q) ==
    LET f == p \div q
        r == p % q
    IN  IF 2 * r < q THEN f
        ELSE IF 2 * r > q THEN f + 1
        ELSE IF f % 2 = 0 THEN f ELSE f + 1

\* x rounded to 4 decimals.
Round4(x) ==
    IF ~IsFinite(x) THEN x
    ELSE Frac(Sign(x.n) * RoundDiv(Abs(x.n) * Base, x.d), Base)

\* The largest t in lo..hi with t^2 * q <= 4 * p * 10^8: floor(2 * 10^4 * sqrt(p/q)).
RECURSIVE TwiceRoot(_, _, _, _)
TwiceRoot(p, q, lo, hi) ==
    IF lo >= hi THEN lo
    ELSE LET mid == (lo + hi + 1) \div 2
         IN  IF BigLe(BigMul(mid * mid, q), BigMul(4 * p, Base * Base))
             THEN TwiceRoot(p, q, mid, hi)
             ELSE TwiceRoot(p, q, lo, mid - 1)

\* sqrt(x) rounded to 4 decimals, for 0 <= x <= 4.
RoundSqrt4(x) ==
    IF IsNaN(x) THEN NaN
    ELSE LET t == TwiceRoot(x.n, x.d, 0, 4 * Base)
             tie == t % 2 = 1 /\ BigMul(t * t, x.d) = BigMul(4 * x.n, Base * Base)
             r == IF tie /\ ((t + 1) \div 2) % 2 = 1 THEN (t - 1) \div 2
                  ELSE (t + 1) \div 2
         IN  Frac(r, Base)

---------------------------------------------------------------------------
(* data_collection_news.py: NewsDataCollector.aggregate_daily_sentiment.   *)
(*                                                                         *)
(* An article is a dict.  An optional key is a sequence: <<>> when the     *)
(* dict has no such key, <<v>> when it has.  The text of an article        *)
(* (title, description, summary) enters only through TextBlob, an          *)
(* external library: text.polarity is the polarity TextBlob finds in it    *)
(* and text.raises says that TextBlob fails on it.                         *)

\* pd.to_datetime(published_at).dt.date: the calendar date of a timestamp.
to_date(published_at) == published_at.date

\* f"{title} {description} {summary}" is never the empty string (it holds
\* the two separating blanks at least), so `not text` is False.
calculate_sentiment_score(text) ==
    IF text.empty THEN Num(0)
    ELSE IF text.raises THEN Num(0)
    ELSE text.polarity

RowText(a) == [empty |-> FALSE, polarity |-> a.text.polarity, raises |-> a.text.raises]

HasColumn(arts, key) ==
    \E i \in 1..Len(arts) :
        CASE key = "sentiment_score" -> arts[i].sentiment_score # <<>>
          [] key = "overall_sentiment_score" -> arts[i].overall_sentiment_score # <<>>

\* A cell of pd.DataFrame(articles): NaN where the dict lacks the key.
Cell(opt) == IF opt = <<>> THEN NaN ELSE opt[1]

\* Lines 281-290: the sentiment_score column, decided on the columns of df.
sentiment_score_column(arts) ==
    IF HasColumn(arts, "sentiment_score")
    THEN [i \in 1..Len(arts) |-> Cell(arts[i].sentiment_score)]
    ELSE IF HasColumn(arts, "overall_sentiment_score")
    THEN [i \in 1..Len(arts) |-> Cell(arts[i].overall_sentiment_score)]
    ELSE [i \in 1..Len(arts) |-> calculate_sentiment_score(RowText(arts[i]))]

\* Lines 273-290: df with its date and sentiment_score columns.
build_df(arts) ==
    LET col == sentiment_score_column(arts)
    IN  [i \in 1..Len(arts) |->
            [symbol |-> arts[i].symbol,
             date |-> to_date(arts[i].published_at),
             sentiment_score |-> col[i],
             url |-> arts[i].url]]

\* The group keys in the order groupby gives them: sorted by symbol, then date.
SortedSymbols == <<"AAPL", "NVDA", "XOM">>

SortedDates == <<5, 6>>

AllKeys ==
    [k \in 1..(Len(SortedSymbols) * Len(SortedDates)) |->
        <<SortedSymbols[((k - 1) \div Len(SortedDates)) + 1],
          SortedDates[((k - 1) % Len(SortedDates)) + 1]>>]

\* Grouping by symbol alone.
InGroup_symbol_only(r, key) == r.symbol = key[1]

InGroup(r, key) == r.symbol = key[1] /\ r.date = key[2]

\* df.groupby(['symbol', 'date']): one group per key that some row carries.
group_keys(sdf) ==
    SelectSeq(AllKeys, LAMBDA key : \E i \in 1..Len(sdf) : InGroup(sdf[i], key))

group_rows(sdf, key) == SelectSeq(sdf, LAMBDA r : InGroup(r, key))

\* The non-missing sentiment scores of a group, as a Series.
group_scores(rows) ==
    dropna([i \in 1..Len(rows) |-> [idx |-> i, val |-> rows[i].sentiment_score]])

\* 'mean': NaN for a group without scores.
agg_mean(s) == np_mean(s)

\* The population variance (ddof = 0) in the place of the sample variance.
agg_var_population(s) == IF Len(s) < 2 THEN NaN ELSE np_var(s)

\* 'std': pandas' sample standard deviation (ddof = 1) squared; NaN for
\* fewer than two scores.
agg_var(s) ==
    IF Len(s) < 2 THEN NaN
    ELSE LET m == np_mean(s)
             sq == [i \in 1..Len(s) |->
                      [idx |-> s[i].idx,
                       val |-> RMul(RSub(s[i].val, m), RSub(s[i].val, m))]]
         IN  RDiv(SumVals(sq), Num(Len(s) - 1))

\* 'count': the non-missing cells.
agg_count(s) == Len(s)

NoneUrl == "None"

url_count(rows) == Cardinality({i \in 1..Len(rows) : rows[i].url # NoneUrl})

fillna(x, v) == IF IsNaN(x) THEN v ELSE x

np_minimum(x, y) == IF IsNaN(x) \/ IsNaN(y) THEN NaN ELSE IF RLt(y, x) THEN y ELSE x

\* The confidence without the cap of the article volume at 1.0.
sentiment_confidence_uncapped(article_count, sentiment_std) ==
    RMul(RDiv(Num(article_count), Num(10)),
         RSub(Num(1), fillna(sentiment_std, Frac(1, 2))))

\* Lines 302-306.
sentiment_confidence(article_count, sentiment_std) ==
    RMul(np_minimum(RDiv(Num(article_count), Num(10)), Num(1)),
         RSub(Num(1), fillna(sentiment_std, Frac(1, 2))))

\* Lines 292-306: one summary row of a group.
summary_row(sdf, key) ==
    LET rows == group_rows(sdf, key)
        s == group_scores(rows)
        std == RoundSqrt4(agg_var(s))
        cnt == url_count(rows)
    IN  [symbol |-> key[1],
         date |-> key[2],
         sentiment_mean |-> Round4(agg_mean(s)),
         sentiment_std |-> std,
         sentiment_count |-> agg_count(s),
         article_count |-> cnt,
         sentiment_confidence |-> sentiment_confidence(cnt, std)]

\* aggregate_daily_sentiment without lines 269-270: a frame built from no
\* article has no column, and groupby(['symbol', 'date']) ends in a KeyError.
aggregate_daily_sentiment_unguarded(arts) ==
    IF arts = <<>> THEN <<[error |-> "KeyError"]>>
    ELSE LET sdf == build_df(arts)
             keys == group_keys(sdf)
         IN  [g \in 1..Len(keys) |-> summary_row(sdf, keys[g])]

\* aggregate_daily_sentiment (lines 260-308): pd.DataFrame() for no article.
aggregate_daily_sentiment(arts) ==
    IF arts = <<>> THEN <<>>
    ELSE LET sdf == build_df(arts)
             keys == group_keys(sdf)
         IN  [g \in 1..Len(keys) |-> summary_row(sdf, keys[g])]

---------------------------------------------------------------------------
(* The article collections aggregate_daily_sentiment is run on.            *)

MaxMixed == 3

MaxArticles == 20

Score(tenths) == Frac(tenths, 10)

PlainText == [polarity |-> Score(5), raises |-> FALSE]

\* What an article says about its sentiment: a provider score (Alpha
\* Vantage), text only (NewsAPI), or an already resolved sentiment_score.
SentimentChoices ==
    << [sentiment_score |-> <<>>, overall_sentiment_score |-> <<Score(-10)>>, text |-> PlainText],
       [sentiment_score |-> <<>>, overall_sentiment_score |-> <<Score(2)>>, text |-> PlainText],
       [sentiment_score |-> <<>>, overall_sentiment_score |-> <<Score(4)>>, text |-> PlainText],
       [sentiment_score |-> <<>>, overall_sentiment_score |-> <<Score(6)>>, text |-> PlainText],
       [sentiment_score |-> <<>>, overall_sentiment_score |-> <<>>, text |-> PlainText],
       [sentiment_score |-> <<>>, overall_sentiment_score |-> <<>>,
        text |-> [polarity |-> Score(5), raises |-> TRUE]],
       [sentiment_score |-> <<Score(4)>>, overall_sentiment_score |-> <<>>, text |-> PlainText] >>

KeyChoices ==
    << [symbol |-> "NVDA", published_at |-> [date |-> 5, hour |-> 9]],
       [symbol |-> "NVDA", published_at |-> [date |-> 6, hour |-> 17]],
       [symbol |-> "AAPL", published_at |-> [date |-> 5, hour |-> 9]] >>

NumChoices == Len(KeyChoices) * Len(SentimentChoices)

\* Every key with every sentiment; the collectors copy the provider's url
\* into every article (lines 136, 193).
ArticleChoice(c) ==
    LET key == KeyChoices[((c - 1) \div Len(SentimentChoices)) + 1]
        sen == SentimentChoices[((c - 1) % Len(SentimentChoices)) + 1]
    IN  [symbol |-> key.symbol,
         published_at |-> key.published_at,
         url |-> "u",
         sentiment_score |-> sen.sentiment_score,
         overall_sentiment_score |-> sen.overall_sentiment_score,
         text |-> sen.text]

ChoiceOf(a) == CHOOSE c \in 1..NumChoices : ArticleChoice(c) = a

InitSentiment ==
    /\ pc = "collect"
    /\ IdleScript
    /\ IdleMain
    /\ articles = <<>>
    /\ sentiment_df = <<>>
    /\ daily_sentiment = <<>>
    /\ IdleOutlier
    /\ IdleRelevance
    /\ IdlePrice

\* One more article reaches the list (all_..._articles.extend, lines 330,
\* 334).  The aggregation never looks at the order of the list, so the
\* lists are enumerated in one order only; a list longer than MaxMixed ends
\* in copies of one article.
CollectArticle(c) ==
    /\ pc = "collect"
    /\ Len(articles) < MaxArticles
    /\ articles # <<>> => ChoiceOf(articles[Len(articles)]) <= c
    /\ Len(articles) >= MaxMixed =>
          \A j \in (MaxMixed - 1)..Len(articles) : articles[j] = ArticleChoice(c)
    /\ articles' = Append(articles, ArticleChoice(c))
    /\ UNCHANGED <<scriptVars, mainVars, pc, sentiment_df, daily_sentiment, outlierVars, relevanceVars, priceVars>>

AggregateDailySentiment ==
    /\ pc = "collect"
    /\ sentiment_df' = IF articles = <<>> THEN <<>> ELSE build_df(articles)
    /\ daily_sentiment' = aggregate_daily_sentiment(articles)
    /\ pc' = "aggregated"
    /\ UNCHANGED <<scriptVars, mainVars, articles, outlierVars, relevanceVars, priceVars>>

NextSentiment ==
    \/ \E c \in 1..NumChoices : CollectArticle(c)
    \/ AggregateDailySentiment

SpecSentiment == InitSentiment /\ [][NextSentiment]_vars

---------------------------------------------------------------------------
(* data_collection_news.py: NewsDataCollector._is_relevant_article.        *)
(*                                                                         *)
(* A string is a sequence of one-character strings.  A value of the        *)
(* article dict is [none |-> TRUE] (None) or a string; a key of the dict   *)
(* holds <<>> when it is missing and <<value>> otherwise.                  *)

UpperCase == <<"A", "B", "C", "D", "E", "F", "G", "H", "I", "J", "K", "L", "M",
               "N", "O", "P", "Q", "R", "S", "T", "U", "V", "W", "X", "Y", "Z">>

LowerCase == <<"a", "b", "c", "d", "e", "f", "g", "h", "i", "j", "k", "l", "m",
               "n", "o", "p", "q", "r", "s", "t", "u", "v", "w", "x", "y", "z">>

LowerChar(c) ==
    IF \E i \in 1..Len(UpperCase) : UpperCase[i] = c
    THEN LowerCase[CHOOSE i \in 1..Len(UpperCase) : UpperCase[i] = c]
    ELSE c

\* str.lower()
lower(str) == [i \in 1..Len(str) |-> LowerChar(str[i])]

\* `needle in haystack` on strings: the empty string is in every string.
Contains(haystack, needle) ==
    \E i \in 1..(Len(haystack) - Len(needle) + 1) :
        SubSeq(haystack, i, i + Len(needle) - 1) = needle

StrValue(str) == [none |-> FALSE, str |-> str]

NoneValue == [none |-> TRUE, str |-> <<>>]

\* How an f-string renders a value: None as "None".
Format(v) == IF v.none THEN <<"N", "o", "n", "e">> ELSE v.str

\* article.get(key, ''): the value, '' for a missing key.
Get(opt) == IF opt = <<>> THEN StrValue(<<>>) ELSE opt[1]

\* Line 224 before .lower(): f"{title} {description}".
FormattedText(a) == Format(Get(a.title)) \o <<" ">> \o Format(Get(a.description))

irrelevant_keywords ==
    << <<"o", "b", "i", "t", "u", "a", "r", "y">>,
       <<"w", "e", "a", "t", "h", "e", "r">>,
       <<"s", "p", "o", "r", "t", "s">>,
       <<"e", "n", "t", "e", "r", "t", "a", "i", "n", "m", "e", "n", "t">>,
       <<"c", "e", "l", "e", "b", "r", "i", "t", "y">> >>

\* The keywords used as they are, without lower-casing them.
lowered_keywords_as_given(info) == SelectSeq(info.keywords, LAMBDA kw : kw # <<>>)

\* Line 227: the non-empty keywords, lower-cased.
lowered_keywords(info) ==
    LET kept == SelectSeq(info.keywords, LAMBDA kw : kw # <<>>)
    IN  [k \in 1..Len(kept) |-> lower(kept[k])]

is_relevant_article(a, info) ==
    LET text == lower(FormattedText(a))
        keywords == lowered_keywords(info)
    IN  IF ~(\E k \in 1..Len(keywords) : Contains(text, keywords[k])) THEN FALSE
        ELSE IF \E k \in 1..Len(irrelevant_keywords) :
                    Contains(text, irrelevant_keywords[k]) THEN FALSE
        ELSE TRUE

---------------------------------------------------------------------------
(* The articles and companies _is_relevant_article is run on.              *)

MaxTitleWords == 2

MaxDescriptionWords == 1

Vocabulary ==
    { <<"N", "V", "D", "A">>,
      <<"N", "v", "i", "d", "i", "a">>,
      <<"E", "x", "x", "o", "n", "M", "o", "b", "i", "l">>,
      <<"S", "p", "o", "r", "t", "s">>,
      <<"W", "e", "a", "t", "h", "e", "r", "s">>,
      <<"s", "t", "o", "c", "k">> }

\* The texts of at most k words, the words one blank apart.
RECURSIVE Phrases(_)
Phrases(k) ==
    IF k = 0 THEN {<<>>}
    ELSE Phrases(k - 1) \cup Vocabulary
           \cup {ph \o <<" ">> \o w : ph \in Phrases(k - 1) \ {<<>>}, w \in Vocabulary}

\* keywords as get_company_info builds them (lines 74-78, 82): the symbol,
\* the long name and the short name, the names possibly empty.
KeywordChoices ==
    { << <<"N", "V", "D", "A">> >>,
      << <<"N", "V", "D", "A">>, <<"N", "V", "I", "D", "I", "A">>, <<>> >>,
      << <<"X", "O", "M">>, <<"E", "x", "x", "o", "n">>, <<"E", "x", "x", "o", "n">> >> }

InitRelevance ==
    /\ pc = "filter"
    /\ IdleScript
    /\ IdleMain
    /\ \E t \in {<<StrValue(ph)>> : ph \in Phrases(MaxTitleWords)},
          d \in {<<>>, <<NoneValue>>}
                  \cup {<<StrValue(ph)>> : ph \in Phrases(MaxDescriptionWords)} :
          article = [title |-> t, description |-> d]
    /\ \E kws \in KeywordChoices : company_info = [keywords |-> kws]
    /\ is_relevant = FALSE
    /\ IdleOutlier
    /\ IdleSentiment
    /\ IdlePrice

IsRelevantArticle ==
    /\ pc = "filter"
    /\ is_relevant' = is_relevant_article(article, company_info)
    /\ pc' = "filtered"
    /\ UNCHANGED <<scriptVars, mainVars, article, company_info, outlierVars, sentimentVars, priceVars>>

NextRelevance == IsRelevantArticle

SpecRelevance == InitRelevance /\ [][NextRelevance]_vars

---------------------------------------------------------------------------
(* data_preprocessing.py: normalize_price_movements.                       *)
(*                                                                         *)
(* A table is [index |-> row labels, cols |-> column name -> column]; a    *)
(* column is [dtype, vals, strs]: a float64 column keeps its cells in      *)
(* vals, an object (text) column keeps its strings in strs.                *)

FloatColumn(vals) == [dtype |-> "float64", vals |-> vals, strs |-> <<>>]

ObjectColumn(strs) == [dtype |-> "object", vals |-> <<>>, strs |-> strs]

HasCol(t, name) == name \in DOMAIN t.cols

NumRows(t) == Len(t.index)

\* df[name] = column: the column is added or replaced.
SetCol(t, name, column) ==
    [t EXCEPT !.cols = [c \in DOMAIN t.cols \cup {name} |->
                           IF c = name THEN column ELSE t.cols[c]]]

DigitChars == <<"0", "1", "2", "3", "4", "5", "6", "7", "8", "9">>

IsDigit(c) == \E k \in 1..10 : DigitChars[k] = c

DigitValue(c) == (CHOOSE k \in 1..10 : DigitChars[k] = c) - 1

\* .replace({',': ''}, regex=True) on one string.
strip_commas(str) == SelectSeq(str, LAMBDA c : c # ",")

RECURSIVE DecimalValue(_)
DecimalValue(str) ==
    IF str = <<>> THEN 0
    ELSE 10 * DecimalValue(SubSeq(str, 1, Len(str) - 1)) + DigitValue(str[Len(str)])

\* float(str) on the strings of the model (digits, or text that is no number).
CanCast(str) == str # <<>> /\ \A k \in 1..Len(str) : IsDigit(str[k])

\* Lines 128-132: the column cast to float, or left as it is when a cell
\* cannot be cast (astype raises before the assignment).
coerce(column) ==
    LET stripped == [k \in 1..Len(column.strs) |-> strip_commas(column.strs[k])]
    IN  IF \A k \in 1..Len(stripped) : CanCast(stripped[k])
        THEN FloatColumn([k \in 1..Len(stripped) |-> Num(DecimalValue(stripped[k]))])
        ELSE column

numeric_columns == <<"Open", "High", "Low", "Close", "Volume", "Adj Close">>

NeedsCoercion(t, name) == HasCol(t, name) /\ t.cols[name].dtype = "object"

\* Lines 124-132, one column after the other.
RECURSIVE coerce_columns(_, _)
coerce_columns(t, k) ==
    IF k > Len(numeric_columns) THEN t
    ELSE LET name == numeric_columns[k]
         IN  IF NeedsCoercion(t, name)
             THEN coerce_columns(SetCol(t, name, coerce(t.cols[name])), k + 1)
             ELSE coerce_columns(t, k + 1)

\* The columns line 132 prints a warning for.
coercion_warnings(t) ==
    SelectSeq(numeric_columns,
              LAMBDA name : NeedsCoercion(t, name) /\ coerce(t.cols[name]).dtype = "object")

\* Series.pct_change() with its default fill_method='pad': missing values
\* are forward-filled before the change is taken.
pct_change_pad(vals) ==
    LET padded == [i \in 1..Len(vals) |->
                      IF ~IsNaN(vals[i]) \/ \A j \in 1..i : IsNaN(vals[j]) THEN vals[i]
                      ELSE vals[CHOOSE j \in 1..i :
                                   ~IsNaN(vals[j]) /\ \A k \in (j + 1)..i : IsNaN(vals[k])]]
    IN  [i \in 1..Len(vals) |->
            IF i = 1 THEN NaN ELSE RSub(RDiv(padded[i], padded[i - 1]), Num(1))]

\* Series.pct_change(fill_method=None) of line 136: x / x.shift(1) - 1.
pct_change(vals) ==
    [i \in 1..Len(vals) |->
        IF i = 1 THEN NaN ELSE RSub(RDiv(vals[i], vals[i - 1]), Num(1))]

\* Series.rolling(window, min_periods=1).mean(): the mean of the rows the
\* window holds so far.
rolling_mean_min_periods_1(vals, window) ==
    [i \in 1..Len(vals) |->
        IF i < window THEN RDiv(SumRange(vals, 1, i), Num(i))
        ELSE RDiv(SumRange(vals, i - window + 1, i), Num(window))]

\* Series.rolling(window).mean(): missing until the window holds `window`
\* non-missing values.
rolling_mean(vals, window) ==
    [i \in 1..Len(vals) |->
        IF i < window THEN NaN
        ELSE RDiv(SumRange(vals, i - window + 1, i), Num(window))]

\* min_price / max_price and the min-max scaling of lines 139-142.
min_max_scaled(vals, min_price, max_price) ==
    [i \in 1..Len(vals) |->
        RDiv(RSub(vals[i], min_price), RSub(max_price, min_price))]

\* The scores written one after the other, without their index.
loc_assign_positional(n, scores) == [j \in 1..Len(scores) |-> scores[j].val]

\* df.loc[scores.index, name] = scores: a new column, missing outside the
\* index of the scores.
loc_assign(n, scores) ==
    [i \in 1..n |->
        IF \E j \in 1..Len(scores) : scores[j].idx = i
        THEN scores[CHOOSE j \in 1..Len(scores) : scores[j].idx = i].val
        ELSE NaN]

\* fillna(method='ffill'): a missing cell takes the last valid value above.
ffill(vals) ==
    [i \in 1..Len(vals) |->
        IF ~IsNaN(vals[i]) THEN vals[i]
        ELSE IF \A j \in 1..i : IsNaN(vals[j]) THEN NaN
        ELSE vals[CHOOSE j \in 1..i :
                     ~IsNaN(vals[j]) /\ \A k \in (j + 1)..i : IsNaN(vals[k])]]

\* fillna(method='bfill'): a missing cell takes the first valid value below.
bfill(vals) ==
    [i \in 1..Len(vals) |->
        IF ~IsNaN(vals[i]) THEN vals[i]
        ELSE IF \A j \in i..Len(vals) : IsNaN(vals[j]) THEN NaN
        ELSE vals[CHOOSE j \in i..Len(vals) :
                     ~IsNaN(vals[j]) /\ \A k \in i..(j - 1) : IsNaN(vals[k])]]

\* Line 165 alone: the forward fill without the backward fill.
fill_table_ffill_only(t) ==
    [t EXCEPT !.cols = [c \in DOMAIN t.cols |->
                           [t.cols[c] EXCEPT !.vals = ffill(t.cols[c].vals)]]]

\* Lines 165-166 on every column; a string is never a missing value.
fill_table(t) ==
    [t EXCEPT !.cols = [c \in DOMAIN t.cols |->
                           [t.cols[c] EXCEPT !.vals = bfill(ffill(t.cols[c].vals))]]]

IsNumeric(t, name) == HasCol(t, name) /\ t.cols[name].dtype # "object"

\* Line 141 with a non-strict comparison.
price_range_or_flat(min_price, max_price) == RLe(min_price, max_price)

\* Line 141: max_price > min_price.
price_range(min_price, max_price) == RGt(max_price, min_price)

\* Lines 136-147: Returns, NormalizedPrice and the moving averages.
close_features(t) ==
    LET close == t.cols["Close"].vals
        s == AsSeries(close)
        min_price == MinVals(dropna(s))
        max_price == MaxVals(dropna(s))
        t1 == SetCol(t, "Returns", FloatColumn(pct_change(close)))
        t2 == IF price_range(min_price, max_price)
              THEN SetCol(t1, "NormalizedPrice",
                          FloatColumn(min_max_scaled(close, min_price, max_price)))
              ELSE t1
        t3 == SetCol(t2, "MA_5", FloatColumn(rolling_mean(close, 5)))
        t4 == SetCol(t3, "MA_20", FloatColumn(rolling_mean(close, 20)))
    IN  SetCol(t4, "MA_50", FloatColumn(rolling_mean(close, 50)))

\* Line 151 raises TypeError when High or Low still holds strings.
volatility_raises(t) == t.cols["High"].dtype = "object" \/ t.cols["Low"].dtype = "object"

\* Lines 151-160: Volatility and the two outlier scores.
volatility_features(t) ==
    LET high == t.cols["High"].vals
        low == t.cols["Low"].vals
        t1 == SetCol(t, "Volatility",
                     FloatColumn([i \in 1..NumRows(t) |-> RSub(high[i], low[i])]))
        returns_outlier_score == calculate_outlier_score(AsSeries(t1.cols["Returns"].vals))
        t2 == SetCol(t1, "ReturnsOutlierScore",
                     FloatColumn(loc_assign(NumRows(t), returns_outlier_score)))
        volatility_outlier_score ==
            calculate_outlier_score(AsSeries(t2.cols["Volatility"].vals))
    IN  SetCol(t2, "VolatilityOutlierScore",
               FloatColumn(loc_assign(NumRows(t), volatility_outlier_score)))

\* Lines 165-168: the table is filled and returned.
filled_and_returned(t, warned) ==
    [df |-> fill_table(t), unfilled |-> t, warnings |-> warned, raised |-> FALSE]

\* normalize_price_movements: the table it leaves in df, that table as it
\* stood when line 165 was reached (or the exception was raised), the
\* warnings it prints, and whether it ends in an exception instead of
\* returning.
normalize_price_movements(t) ==
    LET coerced == coerce_columns(t, 1)
        warned == coercion_warnings(t)
    IN  IF IsNumeric(coerced, "Close")
        THEN LET featured == close_features(coerced)
             IN  IF HasCol(featured, "High") /\ HasCol(featured, "Low")
                 THEN IF volatility_raises(featured)
                      THEN [df |-> featured, unfilled |-> featured,
                            warnings |-> warned, raised |-> TRUE]
                      ELSE filled_and_returned(volatility_features(featured), warned)
                 ELSE filled_and_returned(featured, warned)
        ELSE filled_and_returned(coerced, Append(warned, "Close missing or non-numeric"))

---------------------------------------------------------------------------
(* The tables normalize_price_movements is run on (lines 184-195).         *)

MaxFreeRows == 3

MaxRows == 50

\* The cell of a text column: the digits of the number with thousands
\* separators, a dash where the sheet gives no value (text that read_excel
\* does not take for a missing value and float() cannot cast).
RECURSIVE DigitsOf(_)
DigitsOf(k) ==
    IF k < 10 THEN <<DigitChars[k + 1]>>
    ELSE Append(DigitsOf(k \div 10), DigitChars[(k % 10) + 1])

RECURSIVE WithSeparators(_)
WithSeparators(digits) ==
    IF Len(digits) <= 3 THEN digits
    ELSE WithSeparators(SubSeq(digits, 1, Len(digits) - 3))
           \o <<",">> \o SubSeq(digits, Len(digits) - 2, Len(digits))

ToText(v) == IF IsNaN(v) THEN <<"-">> ELSE WithSeparators(DigitsOf(v.n))

Row(close, high, low, volume) ==
    [c \in {"Close", "High", "Low", "Volume"} |->
        CASE c = "Close" -> close [] c = "High" -> high
          [] c = "Low" -> low [] c = "Volume" -> volume]

RowChoices ==
    << Row(Num(10), Num(11), Num(9), Num(10000)),
       Row(Num(11), Num(12), Num(10), Num(11000)),
       Row(Num(9), Num(9), Num(9), Num(900)),
       Row(NaN, NaN, NaN, NaN),
       Row(Num(0), Num(1), Num(0), Num(0)) >>

\* The columns of a sheet and how read_excel typed them.
SheetChoices ==
    << [Close |-> "float64", High |-> "float64", Low |-> "float64", Volume |-> "absent"],
       [Close |-> "float64", High |-> "absent", Low |-> "absent", Volume |-> "object"],
       [Close |-> "float64", High |-> "float64", Low |-> "absent", Volume |-> "absent"],
       [Close |-> "object", High |-> "float64", Low |-> "float64", Volume |-> "absent"],
       [Close |-> "absent", High |-> "float64", Low |-> "float64", Volume |-> "absent"],
       [Close |-> "float64", High |-> "object", Low |-> "float64", Volume |-> "absent"] >>

EmptyTable(sheet) ==
    [index |-> <<>>,
     cols |-> [c \in {n \in DOMAIN sheet : sheet[n] # "absent"} |->
                  IF sheet[c] = "float64" THEN FloatColumn(<<>>) ELSE ObjectColumn(<<>>)]]

AppendRow(t, row) ==
    [index |-> Append(t.index, Len(t.index) + 1),
     cols |-> [c \in DOMAIN t.cols |->
                  IF t.cols[c].dtype = "float64"
                  THEN FloatColumn(Append(t.cols[c].vals, row[c]))
                  ELSE ObjectColumn(Append(t.cols[c].strs, ToText(row[c])))]]

\* The table with its last row repeated up to n rows.
RepeatLastRow(t, n) ==
    LET last == NumRows(t)
        Cells(cells) == [i \in 1..n |-> IF i <= last THEN cells[i] ELSE cells[last]]
    IN  [index |-> [i \in 1..n |-> i],
         cols |-> [c \in DOMAIN t.cols |->
                      IF t.cols[c].dtype = "float64"
                      THEN FloatColumn(Cells(t.cols[c].vals))
                      ELSE ObjectColumn(Cells(t.cols[c].strs))]]

\* Sheets read as a whole: Close = [10, 11, 9, 12, 12], and the same sheet
\* followed by a row without prices and one more row.
ListedSheets ==
    << << Row(Num(10), Num(11), Num(9), Num(10000)),
          Row(Num(11), Num(12), Num(10), Num(11000)),
          Row(Num(9), Num(9), Num(9), Num(900)),
          Row(Num(12), Num(13), Num(10), Num(12000)),
          Row(Num(12), Num(12), Num(11), Num(1000)) >>,
       << Row(Num(10), Num(11), Num(9), Num(10000)),
          Row(Num(11), Num(12), Num(10), Num(11000)),
          Row(Num(9), Num(9), Num(9), Num(900)),
          Row(Num(12), Num(13), Num(10), Num(12000)),
          Row(Num(12), Num(12), Num(11), Num(1000)),
          Row(NaN, NaN, NaN, NaN),
          Row(Num(10), Num(11), Num(9), Num(10000)) >> >>

RECURSIVE AppendRows(_, _)
AppendRows(t, rows) ==
    IF rows = <<>> THEN t
    ELSE AppendRows(AppendRow(t, Head(rows)), Tail(rows))

InitPrice ==
    /\ pc = "read"
    /\ IdleScript
    /\ IdleMain
    /\ \E k \in 1..Len(SheetChoices) : df = EmptyTable(SheetChoices[k])
    /\ read_df = <<>>
    /\ unfilled_df = <<>>
    /\ warnings = <<>>
    /\ raised = FALSE
    /\ IdleOutlier
    /\ IdleSentiment
    /\ IdleRelevance

\* pd.read_excel delivers one more row of the sheet.
ReadRow(r) ==
    /\ pc = "read"
    /\ NumRows(df) < MaxFreeRows
    /\ df' = AppendRow(df, RowChoices[r])
    /\ UNCHANGED <<scriptVars, mainVars, pc, read_df, unfilled_df, warnings, raised, outlierVars, sentimentVars, relevanceVars>>

\* The rest of a long sheet: a flat market, the last row over and over, up
\* to the length of a moving-average window or to MaxRows.
ReadFlatRows(n) ==
    /\ pc = "read"
    /\ NumRows(df) >= 1
    /\ NumRows(df) <= MaxFreeRows - 1
    /\ n > NumRows(df)
    /\ df' = RepeatLastRow(df, n)
    /\ pc' = "long"
    /\ UNCHANGED <<scriptVars, mainVars, read_df, unfilled_df, warnings, raised, outlierVars, sentimentVars, relevanceVars>>

\* pd.read_excel delivers one of the listed sheets.
ReadListedSheet(k) ==
    /\ pc = "read"
    /\ NumRows(df) = 0
    /\ df' = AppendRows(df, ListedSheets[k])
    /\ pc' = "long"
    /\ UNCHANGED <<scriptVars, mainVars, read_df, unfilled_df, warnings, raised, outlierVars, sentimentVars, relevanceVars>>

\* processed_df = normalize_price_movements(df): df is changed in place and
\* returned.
NormalizePriceMovements ==
    /\ pc \in {"read", "long"}
    /\ LET result == normalize_price_movements(df)
       IN  /\ df' = result.df
           /\ unfilled_df' = result.unfilled
           /\ warnings' = result.warnings
           /\ raised' = result.raised
           /\ pc' = IF result.raised THEN "raised" ELSE "returned"
    /\ read_df' = df
    /\ UNCHANGED <<scriptVars, mainVars, outlierVars, sentimentVars, relevanceVars>>

NextPrice ==
    \/ \E r \in 1..Len(RowChoices) : ReadRow(r)
    \/ \E n \in {20, MaxRows} : ReadFlatRows(n)
    \/ \E k \in 1..Len(ListedSheets) : ReadListedSheet(k)
    \/ NormalizePriceMovements

SpecPrice == InitPrice /\ [][NextPrice]_vars

---------------------------------------------------------------------------
(* data_preprocessing.py: the economic indicators block (lines 206-245).   *)

\* Line 218: economic_df.fillna(method='ffill', inplace=True).
ffill_table(t) ==
    [t EXCEPT !.cols = [c \in DOMAIN t.cols |->
                           [t.cols[c] EXCEPT !.vals = ffill(t.cols[c].vals)]]]

\* f"{column}_Normalized"
normalized_name(column) == column \o "_Normalized"

\* Line 232 with a non-strict comparison.
indicator_range_or_flat(min_val, max_val) == RLe(min_val, max_val)

\* Line 232: max_val > min_val.
indicator_range(min_val, max_val) == RGt(max_val, min_val)

\* Lines 222-233, one pass of the loop: the table and the warnings after
\* the column has been handled.
process_indicator(st, column) ==
    LET t == st.df
        text == t.cols[column].dtype = "object"
    IN  IF text /\ coerce(t.cols[column]).dtype = "object"
        THEN [df |-> t, warnings |-> Append(st.warnings, column)]
        ELSE LET t1 == IF text THEN SetCol(t, column, coerce(t.cols[column])) ELSE t
                 vals == t1.cols[column].vals
                 min_val == MinVals(AsSeries(vals))
                 max_val == MaxVals(AsSeries(vals))
             IN  [df |-> IF indicator_range(min_val, max_val)
                         THEN SetCol(t1, normalized_name(column),
                                     FloatColumn(min_max_scaled(vals, min_val, max_val)))
                         ELSE t1,
                  warnings |-> st.warnings]

\* Lines 221-233: the loop over the columns the table had when it started.
RECURSIVE process_indicators(_, _)
process_indicators(st, columns) ==
    IF columns = <<>> THEN st
    ELSE process_indicators(process_indicator(st, Head(columns)), Tail(columns))

\* The columns of the sheet, in sheet order.
IndicatorColumns == <<"CPI", "GDP", "Rate">>

economic_columns(t) == SelectSeq(IndicatorColumns, LAMBDA c : HasCol(t, c))

\* Lines 215-233 on the table read.
process_economic_indicators(t) ==
    process_indicators([df |-> ffill_table(t), warnings |-> <<>>], economic_columns(t))

MaxEconomicRows == 3

IndicatorRow(cpi, gdp, rate) ==
    [c \in {"CPI", "GDP", "Rate"} |->
        CASE c = "CPI" -> cpi [] c = "GDP" -> gdp [] c = "Rate" -> rate]

EconomicRowChoices ==
    << IndicatorRow(Num(300), Num(25000), Num(5)),
       IndicatorRow(Num(301), Num(25000), Num(4)),
       IndicatorRow(NaN, Num(27000), Num(5)),
       IndicatorRow(Num(303), NaN, NaN) >>

\* The columns of the economic sheet and how read_excel typed them.
EconomicSheetChoices ==
    << [CPI |-> "float64", GDP |-> "float64", Rate |-> "absent"],
       [CPI |-> "float64", GDP |-> "object", Rate |-> "float64"],
       [CPI |-> "object", GDP |-> "float64", Rate |-> "absent"],
       [CPI |-> "object", GDP |-> "object", Rate |-> "float64"] >>

InitEconomic ==
    /\ pc = "read_economic"
    /\ IdleScript
    /\ IdleMain
    /\ \E k \in 1..Len(EconomicSheetChoices) : df = EmptyTable(EconomicSheetChoices[k])
    /\ read_df = <<>>
    /\ unfilled_df = <<>>
    /\ warnings = <<>>
    /\ raised = FALSE
    /\ IdleOutlier
    /\ IdleSentiment
    /\ IdleRelevance

\* pd.read_excel delivers one more row of economic_indicators.xlsx.
ReadEconomicRow(r) ==
    /\ pc = "read_economic"
    /\ NumRows(df) < MaxEconomicRows
    /\ df' = AppendRow(df, EconomicRowChoices[r])
    /\ UNCHANGED <<scriptVars, mainVars, pc, read_df, unfilled_df, warnings, raised, outlierVars, sentimentVars,
                   relevanceVars>>

\* Lines 218-233: the fill and the loop over the columns.
ProcessEconomicIndicators ==
    /\ pc = "read_economic"
    /\ LET result == process_economic_indicators(df)
       IN  /\ df' = result.df
           /\ warnings' = result.warnings
    /\ read_df' = df
    /\ pc' = "economic_processed"
    /\ UNCHANGED <<scriptVars, mainVars, unfilled_df, raised, outlierVars, sentimentVars, relevanceVars>>

NextEconomic ==
    \/ \E r \in 1..Len(EconomicRowChoices) : ReadEconomicRow(r)
    \/ ProcessEconomicIndicators

SpecEconomic == InitEconomic /\ [][NextEconomic]_vars

---------------------------------------------------------------------------
(* data_preprocessing.py: the script as a whole (lines 170-249): the loop  *)
(* over the market data files, the economic indicators block and the       *)
(* closing messages.                                                       *)

MaxFiles == 2

MaxSheets == 3

\* Two sheets a workbook may hold: one that normalize_price_movements
\* returns a table for, and one whose High column is text that cannot be
\* cast, on which line 151 raises.
WorkbookSheets ==
    << AppendRows(EmptyTable(SheetChoices[1]), <<RowChoices[1], RowChoices[2]>>),
       AppendRows(EmptyTable(SheetChoices[6]), <<RowChoices[4], RowChoices[1]>>) >>

\* The workbooks pd.ExcelFile may deliver: one to MaxSheets sheets (an Excel
\* workbook has at least one sheet).
Workbooks ==
    {book \in SeqsUpTo(1..Len(WorkbookSheets), MaxSheets) : Len(book) >= 1}

\* pd.ExcelFile(file_path) raised: the file cannot be opened or is no
\* workbook.
Unreadable == <<>>

\* What line 195 gives for each of these sheets.
ProcessedSheets ==
    [k \in 1..Len(WorkbookSheets) |-> normalize_price_movements(WorkbookSheets[k])]

\* The sheet is processed up to line 195 without an exception.
sheet_processed(k) == ~ProcessedSheets[k].raised

\* An exception propagating out of the script: the traceback ends it.
except_propagates == "traceback"

\* Lines 202-204: the handler prints the error and continues with the next
\* file of the loop.
except_continue == "for_file"

\* f"{processed_data_dir}/{stock_name}_{sheet_name.lower()}_processed.csv"
output_file(stock, sheet) == [stock |-> stock, sheet |-> sheet]

InitPreprocessing ==
    /\ pc = "for_file"
    /\ \E n \in 0..MaxFiles : stock_files = [i \in 1..n |-> i]
    /\ file_path = 0
    /\ xls = <<>>
    /\ sheet_name = 0
    /\ attempted = <<>>
    /\ processed_files = <<>>
    /\ errors = <<>>
    /\ economic = "pending"
    /\ IdleMain
    /\ IdleOutlier
    /\ IdleSentiment
    /\ IdleRelevance
    /\ IdlePrice

\* Lines 174-180: the loop takes the next file and opens it.
OpenWorkbook(book) ==
    /\ pc = "for_file"
    /\ file_path < Len(stock_files)
    /\ file_path' = file_path + 1
    /\ attempted' = Append(attempted, stock_files[file_path + 1])
    /\ sheet_name' = 0
    /\ xls' = book
    /\ IF book = Unreadable
       THEN /\ errors' = Append(errors, stock_files[file_path + 1])
            /\ pc' = except_continue
       ELSE /\ errors' = errors
            /\ pc' = "for_sheet"
    /\ UNCHANGED <<stock_files, processed_files, economic, mainVars, outlierVars,
                   sentimentVars, relevanceVars, priceVars>>

\* Lines 182-200, one pass of the sheet loop: the sheet is read, normalised
\* and saved; an exception leaves the loop and the with block for the
\* handler of line 202.
ProcessSheet ==
    /\ pc = "for_sheet"
    /\ sheet_name < Len(xls)
    /\ sheet_name' = sheet_name + 1
    /\ IF sheet_processed(xls[sheet_name + 1])
       THEN /\ processed_files' =
                  Append(processed_files, output_file(stock_files[file_path], sheet_name + 1))
            /\ errors' = errors
            /\ pc' = "for_sheet"
       ELSE /\ processed_files' = processed_files
            /\ errors' = Append(errors, stock_files[file_path])
            /\ pc' = except_continue
    /\ UNCHANGED <<stock_files, file_path, xls, attempted, economic, mainVars,
                   outlierVars, sentimentVars, relevanceVars, priceVars>>

\* The sheet loop is exhausted: the with block closes the workbook.
CloseWorkbook ==
    /\ pc = "for_sheet"
    /\ sheet_name = Len(xls)
    /\ pc' = "for_file"
    /\ UNCHANGED <<scriptVars, mainVars, outlierVars, sentimentVars, relevanceVars,
                   priceVars>>

\* Lines 206-245 once the file loop is exhausted: the economic indicators
\* file is missing, is processed, or its processing raises and the handler
\* of line 242 prints the error.
EconomicIndicators(outcome) ==
    /\ pc = "for_file"
    /\ file_path = Len(stock_files)
    /\ economic' = outcome
    /\ pc' = "economic_done"
    /\ UNCHANGED <<stock_files, file_path, xls, sheet_name, attempted, processed_files,
                   errors, mainVars, outlierVars, sentimentVars, relevanceVars, priceVars>>

\* Lines 247-249: the closing messages.
CompletionMessages ==
    /\ pc = "economic_done"
    /\ pc' = "completed"
    /\ UNCHANGED <<scriptVars, mainVars, outlierVars, sentimentVars, relevanceVars,
                   priceVars>>

NextPreprocessing ==
    \/ \E book \in Workbooks \cup {Unreadable} : OpenWorkbook(book)
    \/ ProcessSheet
    \/ CloseWorkbook
    \/ \E outcome \in {"not found", "processed", "failed"} : EconomicIndicators(outcome)
    \/ CompletionMessages

\* The script is one sequential process: whenever it has a next statement it
\* executes it.
SpecPreprocessing ==
    InitPreprocessing /\ [][NextPreprocessing]_vars /\ WF_vars(NextPreprocessing)

---------------------------------------------------------------------------
(* main.py: run_script (lines 38-90) and the steps of main (lines 182-267). *)

\* The keys collect_api_keys asks for; api_keys holds those entered.
ApiKeys == {"FRED_API_KEY", "NEWS_API_KEY", "ALPHA_VANTAGE_KEY"}

\* How subprocess.run(..., check=True) ends: the script exits with status 0,
\* exits with another status (CalledProcessError), or cannot be run at all
\* (another exception, e.g. OSError).
Outcomes == {"completed", "CalledProcessError", "Exception"}

\* The scripts in the order main names them.
Scripts ==
    << "src/data_collection/data_collection_yahoo.py",
       "src/data_collection/data_collection_fred.py",
       "src/data_collection/data_collection_news.py",
       "src/data_processing/data_preprocessing.py" >>

\* run_script returning True whatever happened.
run_script_always_true(outcome, optional) == TRUE

\* run_script returning False for every failure, optional or not.
run_script_strict(outcome, optional) == outcome = "completed"

\* run_script (lines 54-90): True after a successful run (line 71); after a
\* CalledProcessError True for an optional script (line 81) and False
\* otherwise (line 86); after any other exception False if not optional,
\* else True (line 90).
run_script(outcome, optional) ==
    CASE outcome = "completed" -> TRUE
      [] outcome = "CalledProcessError" -> IF optional THEN TRUE ELSE FALSE
      [] outcome = "Exception" -> IF ~optional THEN FALSE ELSE TRUE

Run(script, outcome) == [script |-> script, outcome |-> outcome]

InitMain ==
    /\ pc = "step_1"
    /\ api_keys \in SUBSET ApiKeys
    /\ started = <<>>
    /\ failed_steps = <<>>
    /\ summary = "none"
    /\ success = "running"
    /\ IdleScript
    /\ IdleOutlier
    /\ IdleSentiment
    /\ IdleRelevance
    /\ IdlePrice

\* Lines 185-193, step 1: the Yahoo script, required.
MarketDataCollection(outcome) ==
    /\ pc = "step_1"
    /\ started' = Append(started, Run(Scripts[1], outcome))
    /\ IF ~run_script(outcome, FALSE)
       THEN /\ failed_steps' = Append(failed_steps, "Market Data Collection")
            /\ success' = FALSE
            /\ pc' = "returned"
       ELSE /\ failed_steps' = failed_steps
            /\ success' = success
            /\ pc' = "step_2"
    /\ UNCHANGED <<api_keys, summary, scriptVars, outlierVars, sentimentVars,
                   relevanceVars, priceVars>>

\* Lines 195-203, step 2 with a FRED key: the FRED script, optional.
EconomicDataCollection(outcome) ==
    /\ pc = "step_2"
    /\ "FRED_API_KEY" \in api_keys
    /\ started' = Append(started, Run(Scripts[2], outcome))
    /\ failed_steps' = IF ~run_script(outcome, TRUE)
                       THEN Append(failed_steps, "Economic Data Collection")
                       ELSE failed_steps
    /\ pc' = "step_3"
    /\ UNCHANGED <<api_keys, summary, success, scriptVars, outlierVars, sentimentVars,
                   relevanceVars, priceVars>>

\* Lines 204-205, step 2 without a FRED key: skipped.
SkipEconomicDataCollection ==
    /\ pc = "step_2"
    /\ "FRED_API_KEY" \notin api_keys
    /\ pc' = "step_3"
    /\ UNCHANGED <<mainVars, scriptVars, outlierVars, sentimentVars, relevanceVars,
                   priceVars>>

\* Lines 207-215, step 3 with a news key: the news script, optional.
NewsDataCollection(outcome) ==
    /\ pc = "step_3"
    /\ ("NEWS_API_KEY" \in api_keys \/ "ALPHA_VANTAGE_KEY" \in api_keys)
    /\ started' = Append(started, Run(Scripts[3], outcome))
    /\ failed_steps' = IF ~run_script(outcome, TRUE)
                       THEN Append(failed_steps, "News Data Collection")
                       ELSE failed_steps
    /\ pc' = "step_4"
    /\ UNCHANGED <<api_keys, summary, success, scriptVars, outlierVars, sentimentVars,
                   relevanceVars, priceVars>>

\* Lines 216-218, step 3 without a news key: skipped.
SkipNewsDataCollection ==
    /\ pc = "step_3"
    /\ ~("NEWS_API_KEY" \in api_keys \/ "ALPHA_VANTAGE_KEY" \in api_keys)
    /\ pc' = "step_4"
    /\ UNCHANGED <<mainVars, scriptVars, outlierVars, sentimentVars, relevanceVars,
                   priceVars>>

\* Lines 220-228, step 4: the preprocessing script, required.
DataPreprocessing(outcome) ==
    /\ pc = "step_4"
    /\ started' = Append(started, Run(Scripts[4], outcome))
    /\ IF ~run_script(outcome, FALSE)
       THEN /\ failed_steps' = Append(failed_steps, "Data Preprocessing")
            /\ success' = FALSE
            /\ pc' = "returned"
       ELSE /\ failed_steps' = failed_steps
            /\ success' = success
            /\ pc' = "summary"
    /\ UNCHANGED <<api_keys, summary, scriptVars, outlierVars, sentimentVars,
                   relevanceVars, priceVars>>

\* Lines 230-267: the pipeline summary, one of its two branches (line 236),
\* the data summary and next steps, and return True.
PipelineSummary ==
    /\ pc = "summary"
    /\ summary' = IF failed_steps # <<>> THEN "Failed steps"
                  ELSE "All pipeline steps completed successfully"
    /\ success' = TRUE
    /\ pc' = "returned"
    /\ UNCHANGED <<api_keys, started, failed_steps, scriptVars, outlierVars,
                   sentimentVars, relevanceVars, priceVars>>

NextMain ==
    \/ \E outcome \in Outcomes : MarketDataCollection(outcome)
    \/ \E outcome \in Outcomes : EconomicDataCollection(outcome)
    \/ SkipEconomicDataCollection
    \/ \E outcome \in Outcomes : NewsDataCollection(outcome)
    \/ SkipNewsDataCollection
    \/ \E outcome \in Outcomes : DataPreprocessing(outcome)
    \/ PipelineSummary

SpecMain == InitMain /\ [][NextMain]_vars

---------------------------------------------------------------------------
(* Properties of calculate_outlier_score.                                  *)

InUnitInterval(x) == RLe(Num(0), x) /\ RLe(x, Num(1))

InputVariance == np_var(dropna(series))

---------------------------------------------------------------------------
(* Properties of aggregate_daily_sentiment.                                *)

Rows == 1..Len(daily_sentiment)

ArticleKey(a) == <<a.symbol, a.published_at.date>>

RowKey(r) == <<r.symbol, r.date>>

InputKeys == {ArticleKey(articles[i]) : i \in 1..Len(articles)}

GroupSize(r) == Cardinality({i \in 1..Len(articles) : ArticleKey(articles[i]) = RowKey(r)})

\* C1: the sentiment_confidence of every group lies in [0, 1].
C1_ConfidenceInUnitInterval ==
    pc = "aggregated" =>
        \A g \in Rows : InUnitInterval(daily_sentiment[g].sentiment_confidence)

NoResolvedScore == \A i \in 1..Len(articles) : articles[i].sentiment_score = <<>>

TextPolarity(a) == IF a.text.raises THEN Num(0) ELSE a.text.polarity

\* C3: sentiment is resolved per article: an article with a provider score
\* keeps that score, an article without one gets the polarity of its text
\* (0.0 when the analysis fails), and no article is left without a score,
\* also in a collection that mixes both kinds of article.
C3_SentimentResolvedPerArticle ==
    (pc = "aggregated" /\ NoResolvedScore) =>
        \A i \in 1..Len(articles) :
            /\ ~IsNaN(sentiment_df[i].sentiment_score)
            /\ articles[i].overall_sentiment_score # <<>> =>
                  sentiment_df[i].sentiment_score = articles[i].overall_sentiment_score[1]
            /\ articles[i].overall_sentiment_score = <<>> =>
                  /\ sentiment_df[i].sentiment_score = TextPolarity(articles[i])
                  /\ RLe(Num(-1), sentiment_df[i].sentiment_score)
                  /\ RLe(sentiment_df[i].sentiment_score, Num(1))

\* C4: sentiment_confidence = min(article_count / 10, 1.0) * (1 - std), std
\* being sentiment_std, or 0.5 when that is missing; a group of 20 articles
\* with std = 0 has confidence 1.0 and a group of one article has 0.05.
C4_ConfidenceFormula ==
    pc = "aggregated" =>
        \A g \in Rows :
            LET r == daily_sentiment[g]
                volume == IF r.article_count >= 10 THEN Num(1)
                          ELSE Frac(r.article_count, 10)
                std == IF IsNaN(r.sentiment_std) THEN Frac(1, 2) ELSE r.sentiment_std
            IN  /\ r.sentiment_confidence = RMul(volume, RSub(Num(1), std))
                /\ (GroupSize(r) = 20 /\ r.sentiment_std = Num(0)) =>
                      r.sentiment_confidence = Num(1)
                /\ GroupSize(r) = 1 => r.sentiment_confidence = Frac(1, 20)

\* A group of 20 articles that agree exactly, with confidence 1.0.
C4_Witness ==
    /\ pc = "aggregated"
    /\ \E g \in Rows :
          /\ GroupSize(daily_sentiment[g]) = 20
          /\ daily_sentiment[g].sentiment_std = Num(0)
          /\ daily_sentiment[g].sentiment_confidence = Num(1)

\* Three NVDA articles of 2024-01-05 (date 5) with provider scores 0.2, 0.4, 0.6.
Scenario ==
    /\ Len(articles) = 3
    /\ \A i \in 1..3 :
          /\ ArticleKey(articles[i]) = <<"NVDA", 5>>
          /\ articles[i].sentiment_score = <<>>
          /\ articles[i].overall_sentiment_score = <<Score(2 * i)>>

Within(x, y, tol) == RLe(RAbs(RSub(x, y)), tol)

\* C5 as amended: the scenario yields one row with sentiment_mean = 0.4,
\* sentiment_std = 0.2 (the sample standard deviation, variance 0.04),
\* sentiment_count = 3 and sentiment_confidence = 0.3 * 0.8 = 0.24.
C5_ScenarioSampleStd ==
    (pc = "aggregated" /\ Scenario) =>
        /\ Len(daily_sentiment) = 1
        /\ RowKey(daily_sentiment[1]) = <<"NVDA", 5>>
        /\ daily_sentiment[1].sentiment_mean = Frac(4, 10)
        /\ daily_sentiment[1].sentiment_std = Frac(2, 10)
        /\ daily_sentiment[1].sentiment_count = 3
        /\ daily_sentiment[1].sentiment_confidence = Frac(24, 100)

C5_Witness ==
    /\ pc = "aggregated"
    /\ Scenario
    /\ Len(daily_sentiment) = 1
    /\ daily_sentiment[1].sentiment_std = Frac(2, 10)

\* C5 as stated: the scenario yields sentiment_mean = 0.4, sentiment_std
\* about 0.1633, sentiment_count = 3 and sentiment_confidence about 0.251.
C5_ScenarioAsStated ==
    (pc = "aggregated" /\ Scenario) =>
        /\ Len(daily_sentiment) = 1
        /\ daily_sentiment[1].sentiment_mean = Frac(4, 10)
        /\ Within(daily_sentiment[1].sentiment_std, Frac(1633, 10000), Frac(1, 10000))
        /\ daily_sentiment[1].sentiment_count = 3
        /\ Within(daily_sentiment[1].sentiment_confidence, Frac(251, 1000), Frac(1, 1000))

\* C7: the summary has exactly one row for each (symbol, date) pair that
\* occurs among the articles and no other row; a symbol without articles has
\* no row.
C7_OneRowPerSymbolDate ==
    pc = "aggregated" =>
        /\ {RowKey(daily_sentiment[g]) : g \in Rows} = InputKeys
        /\ Len(daily_sentiment) = Cardinality(InputKeys)
        /\ \A k \in 1..Len(SortedSymbols) :
              (\A i \in 1..Len(articles) : articles[i].symbol # SortedSymbols[k]) =>
                  \A g \in Rows : daily_sentiment[g].symbol # SortedSymbols[k]

\* Several articles share a key, two keys occur, and one symbol that occurs
\* has no article on a date another symbol has.
C7_Witness ==
    /\ pc = "aggregated"
    /\ Len(daily_sentiment) = 2
    /\ Len(articles) > 2
    /\ daily_sentiment[1].symbol = daily_sentiment[2].symbol

\* C20: aggregate_daily_sentiment called with no article returns an empty
\* summary table; the call does not end in an error.
C20_EmptyCollectionEmptySummary ==
    (pc = "aggregated" /\ articles = <<>>) =>
        /\ daily_sentiment = <<>>
        /\ sentiment_df = <<>>

\* The aggregation has run on the empty collection.
C20_Witness ==
    /\ pc = "aggregated"
    /\ articles = <<>>
    /\ Len(daily_sentiment) = 0

---------------------------------------------------------------------------
(* Properties of _is_relevant_article.                                     *)

\* The word occurs in the text at some position, letter case ignored.
OccursIgnoringCase(text, word) ==
    \E at \in 0..(Len(text) - Len(word)) :
        \A j \in 1..Len(word) : LowerChar(text[at + j]) = LowerChar(word[j])

\* C6: _is_relevant_article returns True exactly when the title and
\* description text contains, letter case ignored, at least one non-empty
\* keyword of the symbol and none of the words obituary, weather, sports,
\* entertainment, celebrity.
C6_RelevantIffKeywordAndNotDisqualified ==
    pc = "filtered" =>
        (is_relevant <=>
            /\ \E k \in 1..Len(company_info.keywords) :
                  /\ company_info.keywords[k] # <<>>
                  /\ OccursIgnoringCase(FormattedText(article), company_info.keywords[k])
            /\ \A k \in 1..Len(irrelevant_keywords) :
                  ~OccursIgnoringCase(FormattedText(article), irrelevant_keywords[k]))

\* An article that names the company in another letter case and is turned
\* down for a disqualifying word written with a capital.
C6_Witness ==
    /\ pc = "filtered"
    /\ ~is_relevant
    /\ \E k \in 1..Len(company_info.keywords) :
          /\ company_info.keywords[k] # <<>>
          /\ ~Contains(FormattedText(article), company_info.keywords[k])
          /\ OccursIgnoringCase(FormattedText(article), company_info.keywords[k])
    /\ ~(\E k \in 1..Len(irrelevant_keywords) :
            Contains(FormattedText(article), irrelevant_keywords[k]))
    /\ \E k \in 1..Len(irrelevant_keywords) :
          OccursIgnoringCase(FormattedText(article), irrelevant_keywords[k])

---------------------------------------------------------------------------
(* Claims about normalize_price_movements.                                 *)

\* The call has ended, by a return or by an exception.
Ended == pc \in {"returned", "raised"}

\* The table held a Close column of numbers, or of text that line 130 casts.
CloseNumeric ==
    /\ Ended
    /\ HasCol(read_df, "Close")
    /\ \/ read_df.cols["Close"].dtype = "float64"
       \/ \A i \in 1..NumRows(read_df) :
             LET cell == read_df.cols["Close"].strs[i]
             IN  /\ \E j \in 1..Len(cell) : IsDigit(cell[j])
                 /\ \A j \in 1..Len(cell) : IsDigit(cell[j]) \/ cell[j] = ","

\* The Close prices of the table as it was read, text cast to numbers.
CloseRead ==
    IF read_df.cols["Close"].dtype = "float64" THEN read_df.cols["Close"].vals
    ELSE coerce(read_df.cols["Close"]).vals

\* (Close[i] - Close[i-1]) / Close[i-1]
Change(close, i) == RDiv(RSub(close[i], close[i - 1]), close[i - 1])

\* The rows whose change pandas can compute: both prices present, and not
\* zero over zero.
ChangeRows(close) == {i \in 2..Len(close) : ~IsNaN(Change(close, i))}

First(rows) == CHOOSE i \in rows : \A j \in rows : i <= j

\* C8 (as amended): in the table normalize_price_movements returns for a
\* numeric Close, Returns[i] = (Close[i] - Close[i-1]) / Close[i-1] on every
\* row i > 0 where that change is defined on the prices as read; a row i > 0
\* where it is not defined repeats Returns[i-1]; and Returns[0] holds the
\* first defined change of the table, missing only when there is none.
C8_ReturnsAfterFill ==
    (pc = "returned" /\ CloseNumeric) =>
        LET close == CloseRead
            returns == df.cols["Returns"].vals
        IN  /\ Len(returns) = Len(close)
            /\ \A i \in 2..Len(close) :
                  IF i \in ChangeRows(close) THEN returns[i] = Change(close, i)
                  ELSE returns[i] = returns[i - 1]
            /\ Len(close) >= 1 =>
                  returns[1] = IF ChangeRows(close) = {} THEN NaN
                               ELSE Change(close, First(ChangeRows(close)))

\* Close = [10, 11, 9, 12, 12] returned with
\* Returns = [0.1, 0.1, -2/11, 1/3, 0].
C8_Witness ==
    /\ pc = "returned"
    /\ CloseNumeric
    /\ CloseRead = <<Num(10), Num(11), Num(9), Num(12), Num(12)>>
    /\ df.cols["Returns"].vals =
          <<Frac(1, 10), Frac(1, 10), Frac(-2, 11), Frac(1, 3), Num(0)>>

\* C8 as the specification words it: Returns[0] is missing in the returned
\* table and Returns[i] is the fractional change wherever Close[i-1] is not
\* zero.
C8_ReturnsFirstRowMissing ==
    (pc = "returned" /\ CloseNumeric /\ NumRows(df) >= 1) =>
        /\ IsNaN(df.cols["Returns"].vals[1])
        /\ \A i \in 2..NumRows(df) :
              CloseRead[i - 1] # Num(0) =>
                  df.cols["Returns"].vals[i] = Change(CloseRead, i)

MAName(k) == CASE k = 5 -> "MA_5" [] k = 20 -> "MA_20" [] k = 50 -> "MA_50"

\* The arithmetic mean of Close[i-k+1..i].
WindowMean(close, i, k) == RDiv(SumRange(close, i - k + 1, i), Num(k))

\* The rows whose trailing window of k prices is full and has no missing
\* price.
WindowRows(close, k) ==
    {i \in k..Len(close) : \A j \in (i - k + 1)..i : ~IsNaN(close[j])}

\* C9 (as amended): in the table normalize_price_movements returns, for k in
\* {5, 20, 50}, MA_k[i] is the arithmetic mean of Close[i-k+1..i] on every
\* row whose window of k prices as read is complete; any other row i > 0
\* repeats MA_k[i-1]; and row 0 holds the first such mean of the table
\* (so the rows before k-1 are back-filled with it), missing only when the
\* table has no complete window.
C9_MovingAverageAfterFill ==
    (pc = "returned" /\ CloseNumeric) =>
        \A k \in {5, 20, 50} :
            LET close == CloseRead
                ma == df.cols[MAName(k)].vals
                rows == WindowRows(close, k)
            IN  /\ Len(ma) = Len(close)
                /\ \A i \in 1..Len(close) :
                      IF i \in rows THEN ma[i] = WindowMean(close, i, k)
                      ELSE IF i > 1 THEN ma[i] = ma[i - 1]
                      ELSE ma[i] = IF rows = {} THEN NaN
                                   ELSE WindowMean(close, First(rows), k)

\* A table of MaxRows rows whose prices move: its first row holds the
\* back-filled MA_50 of the last row, which is not the price of that row.
C9_Witness ==
    /\ pc = "returned"
    /\ CloseNumeric
    /\ NumRows(df) >= 50
    /\ WindowRows(CloseRead, 50) # {}
    /\ ~IsNaN(df.cols["MA_50"].vals[1])
    /\ df.cols["MA_50"].vals[1] # df.cols["Close"].vals[50]
    /\ df.cols["MA_5"].vals[1] # df.cols["MA_20"].vals[1]

\* C9 as the specification words it: MA_k[i] is missing on the rows before
\* k-1 and is the mean of the window on every row from k-1 on.
C9_MovingAverageUndefinedBeforeWindow ==
    (pc = "returned" /\ CloseNumeric) =>
        \A k \in {5, 20, 50} :
            \A i \in 1..NumRows(df) :
                IF i < k THEN IsNaN(df.cols[MAName(k)].vals[i])
                ELSE df.cols[MAName(k)].vals[i] = WindowMean(CloseRead, i, k)

\* The prices present in a column.
Present(close) == {close[i] : i \in {j \in 1..Len(close) : ~IsNaN(close[j])}}

Lowest(values) == CHOOSE a \in values : \A b \in values : RLe(a, b)

Highest(values) == CHOOSE a \in values : \A b \in values : RLe(b, a)

\* C10: when normalize_price_movements ends, the table has a NormalizedPrice
\* column if and only if Close is numeric and its largest price is strictly
\* above its smallest; and then every value of the column is
\* (Close - min) / (max - min), the smallest is 0 and the largest is 1.
C10_NormalizedPriceIffRange ==
    Ended =>
        /\ HasCol(df, "NormalizedPrice") <=>
              /\ CloseNumeric
              /\ \E a \in Present(CloseRead) : \E b \in Present(CloseRead) : RLt(a, b)
        /\ HasCol(df, "NormalizedPrice") =>
              LET close == df.cols["Close"].vals
                  normalized == df.cols["NormalizedPrice"].vals
                  min == Lowest(Present(CloseRead))
                  max == Highest(Present(CloseRead))
              IN  /\ Len(normalized) = Len(close)
                  /\ \A i \in 1..Len(close) :
                        normalized[i] = RDiv(RSub(close[i], min), RSub(max, min))
                  /\ Lowest(Present(normalized)) = Num(0)
                  /\ Highest(Present(normalized)) = Num(1)

\* A returned table with a NormalizedPrice value strictly between 0 and 1,
\* next to a row that was read without a price.
C10_Witness ==
    /\ pc = "returned"
    /\ HasCol(df, "NormalizedPrice")
    /\ \E i \in 1..NumRows(df) : IsNaN(CloseRead[i])
    /\ \E i \in 1..NumRows(df) :
          /\ RLt(Num(0), df.cols["NormalizedPrice"].vals[i])
          /\ RLt(df.cols["NormalizedPrice"].vals[i], Num(1))

Last(rows) == CHOOSE i \in rows : \A j \in rows : j <= i

\* The last valid value at or before row i, or else the first valid value
\* after it, or else a missing value.
Imputed(vals, i) ==
    LET before == {j \in 1..i : ~IsNaN(vals[j])}
        after == {j \in i..Len(vals) : ~IsNaN(vals[j])}
    IN  IF before # {} THEN vals[Last(before)]
        ELSE IF after # {} THEN vals[First(after)]
        ELSE NaN

\* C11: the table normalize_price_movements returns has the columns it had
\* before the fill of lines 165-166; a column with at least one valid value
\* then has no missing value left, a column that was entirely missing is
\* still entirely missing, and every cell holds the last valid value at or
\* before its row or, without one, the first valid value after it.
C11_TerminalFill ==
    pc = "returned" =>
        /\ DOMAIN df.cols = DOMAIN unfilled_df.cols
        /\ \A c \in DOMAIN df.cols :
              LET before == unfilled_df.cols[c]
                  after == df.cols[c]
                  rows == 1..Len(before.vals)
              IN  /\ after.dtype = before.dtype
                  /\ after.strs = before.strs
                  /\ Len(after.vals) = Len(before.vals)
                  /\ \A i \in rows : after.vals[i] = Imputed(before.vals, i)
                  /\ (\E i \in rows : ~IsNaN(before.vals[i]))
                        => \A i \in rows : ~IsNaN(after.vals[i])
                  /\ (\A i \in rows : IsNaN(before.vals[i]))
                        => \A i \in rows : IsNaN(after.vals[i])

\* A returned table with a column that was missing in its first row and in a
\* row after a valid one, next to a column that had no value at all.
C11_Witness ==
    /\ pc = "returned"
    /\ \E c \in DOMAIN df.cols :
          LET before == unfilled_df.cols[c].vals
          IN  /\ Len(before) >= 3
              /\ IsNaN(before[1])
              /\ \E i \in 2..Len(before) : ~IsNaN(before[i - 1]) /\ IsNaN(before[i])
              /\ \A i \in 1..Len(before) : ~IsNaN(df.cols[c].vals[i])
    /\ \E c \in DOMAIN df.cols :
          /\ NumRows(df) >= 1
          /\ unfilled_df.cols[c].dtype = "float64"
          /\ \A i \in 1..NumRows(df) : IsNaN(df.cols[c].vals[i])

\* C12: normalize_price_movements leaves the table object it was handed as
\* it was read: no column added, no cell coerced or filled.
C12_InputTableUnchanged == Ended => df = read_df

\* The column of scores line 156 writes for a column of values: the score
\* of calculate_outlier_score on the rows it scored, missing elsewhere.
ScoreColumn(vals) ==
    LET scores == calculate_outlier_score(AsSeries(vals))
    IN  [i \in 1..Len(vals) |->
            IF IsNaN(vals[i]) THEN NaN
            ELSE scores[CHOOSE j \in 1..Len(scores) : scores[j].idx = i].val]

\* C13: whenever the Returns column exists, the table has, before the fill,
\* a ReturnsOutlierScore column holding the outlier score of Returns on the
\* rows where Returns has a value and nothing elsewhere, with or without
\* High and Low columns.
C13_ReturnsScoreWheneverReturns ==
    (pc = "returned" /\ HasCol(unfilled_df, "Returns")) =>
        /\ HasCol(unfilled_df, "ReturnsOutlierScore")
        /\ unfilled_df.cols["ReturnsOutlierScore"].vals =
              ScoreColumn(unfilled_df.cols["Returns"].vals)

\* C14: whenever the table read has a High and a Low column, the returned
\* table has Volatility = High - Low on every row and a
\* VolatilityOutlierScore column, with or without a numeric Close.
C14_VolatilityWheneverHighLow ==
    (pc = "returned" /\ HasCol(read_df, "High") /\ HasCol(read_df, "Low")) =>
        /\ HasCol(unfilled_df, "Volatility")
        /\ HasCol(unfilled_df, "VolatilityOutlierScore")
        /\ \A i \in 1..NumRows(read_df) :
              unfilled_df.cols["Volatility"].vals[i] =
                  RSub(unfilled_df.cols["High"].vals[i], unfilled_df.cols["Low"].vals[i])
        /\ unfilled_df.cols["VolatilityOutlierScore"].vals =
              ScoreColumn(unfilled_df.cols["Volatility"].vals)

\* The known numeric columns of the table read that hold text with a cell
\* that is no number.
Uncoercible ==
    {c \in {numeric_columns[k] : k \in 1..Len(numeric_columns)} :
        /\ HasCol(read_df, c)
        /\ read_df.cols[c].dtype = "object"
        /\ \E i \in 1..NumRows(read_df) :
              \E j \in 1..Len(read_df.cols[c].strs[i]) :
                  ~IsDigit(read_df.cols[c].strs[i][j]) /\ read_df.cols[c].strs[i][j] # ","}

\* C15: when a known numeric column cannot be coerced, the call returns
\* instead of raising, the column is left as it was read, and a warning
\* names it.
C15_CoercionFailureNeverRaises ==
    (Ended /\ Uncoercible # {}) =>
        /\ pc = "returned"
        /\ \A c \in Uncoercible :
              /\ df.cols[c] = read_df.cols[c]
              /\ \E k \in 1..Len(warnings) : warnings[k] = c

ColumnLength(column) ==
    IF column.dtype = "object" THEN Len(column.strs) ELSE Len(column.vals)

\* C16: the table normalize_price_movements returns has the row index of
\* the table read, in the same order, and every column of it, before and
\* after the fill, has one cell per row.
C16_RowIndexKept ==
    pc = "returned" =>
        /\ df.index = read_df.index
        /\ unfilled_df.index = read_df.index
        /\ \A c \in DOMAIN df.cols : ColumnLength(df.cols[c]) = Len(read_df.index)
        /\ \A c \in DOMAIN unfilled_df.cols :
              ColumnLength(unfilled_df.cols[c]) = Len(read_df.index)

\* A returned table of several rows, one of them read without prices, with
\* the outlier scores written back over a shorter index.
C16_Witness ==
    /\ pc = "returned"
    /\ NumRows(read_df) >= 3
    /\ HasCol(df, "ReturnsOutlierScore")
    /\ HasCol(df, "VolatilityOutlierScore")
    /\ \E i \in 1..NumRows(read_df) : IsNaN(unfilled_df.cols["Volatility"].vals[i])
    /\ \E i \in 1..NumRows(read_df) : ~IsNaN(unfilled_df.cols["ReturnsOutlierScore"].vals[i])

---------------------------------------------------------------------------
(* Claims about detect_outliers and the index of calculate_outlier_score.  *)

\* The positions of the series that hold a value, in order.
ValidPositions == SelectSeq([i \in 1..Len(series) |-> i], LAMBDA i : ~IsNaN(series[i].val))

\* The non-missing values of the series.
ValidValues == [j \in 1..Len(ValidPositions) |-> series[ValidPositions[j]].val]

Mean(values) == RDiv(SumRange(values, 1, Len(values)), Num(Len(values)))

\* The sum of the squared deviations from the mean, over the divisor.
Variance(values, mean, divisor) ==
    RDiv(SumRange([j \in 1..Len(values) |->
                      RMul(RSub(values[j], mean), RSub(values[j], mean))],
                  1, Len(values)),
         Num(divisor))

\* |x - mean| / sigma > t for sigma > 0, sigma the root of the variance:
\* (x - mean)^2 > t^2 * variance.
Flagged(x, mean, variance, t) ==
    /\ RGt(variance, Num(0))
    /\ RGt(RMul(RSub(x, mean), RSub(x, mean)), RMul(Num(t * t), variance))

\* The mask of the values flagged for a standard deviation with the given
\* divisor.
FlaggedValues(values, divisor, t) ==
    LET mean == Mean(values)
        variance == Variance(values, mean, divisor)
    IN  [j \in 1..Len(values) |-> Flagged(values[j], mean, variance, t)]

\* |x - mean| / sigma equals t in exact arithmetic while the mean or the
\* variance is not representable in binary floating point: the computed
\* quotient may come out on either side of t.
AtThreshold(x, mean, variance, t) ==
    /\ RGt(variance, Num(0))
    /\ ~(Representable(mean) /\ Representable(variance))
    /\ RMul(RSub(x, mean), RSub(x, mean)) = RMul(Num(t * t), variance)

\* The mask follows the rule for a standard deviation with the given
\* divisor, wherever rounding does not decide.
FollowsRule(mask, values, divisor, t) ==
    LET mean == Mean(values)
        variance == Variance(values, mean, divisor)
    IN  \A j \in 1..Len(values) :
            \/ AtThreshold(values[j], mean, variance, t)
            \/ mask[j].val = Flagged(values[j], mean, variance, t)

\* C17 (as amended): detect_outliers flags a non-missing value x exactly when
\* sigma > 0 and |x - mean| / sigma > threshold, where sigma is the
\* population standard deviation (divisor n) of the non-missing values; for
\* sigma = 0 nothing is flagged.  The quotient is the one floating point
\* computes: where it equals the threshold in exact arithmetic and is not
\* computed exactly, either outcome is allowed.
C17_PopulationStdMask ==
    pc = "detected" =>
        /\ [j \in 1..Len(outliers) |-> outliers[j].idx] = ValidPositions
        /\ FollowsRule(outliers, ValidValues, Len(ValidValues), threshold)

\* The default threshold 3 at work: a value flagged in a series that also
\* holds a missing value.
C17_Witness ==
    /\ pc = "detected"
    /\ threshold = 3
    /\ Len(outliers) < Len(series)
    /\ \E j \in 1..Len(outliers) : outliers[j].val
    /\ \E j \in 1..Len(outliers) : ~outliers[j].val

\* C17 as the specification words it: sigma is the sample standard
\* deviation, divisor n - 1.
C17_SampleStdMask ==
    pc = "detected" =>
        [j \in 1..Len(outliers) |-> outliers[j].val] =
            FlaggedValues(ValidValues, Len(ValidValues) - 1, threshold)

\* C18: the series calculate_outlier_score returns is indexed by exactly the
\* positions of the input that hold a value, in input order; it is empty for
\* an input that is empty or entirely missing.
C18_ScoresIndexedByValidPositions ==
    pc = "scored" =>
        /\ [j \in 1..Len(outlier_scores) |-> outlier_scores[j].idx] = ValidPositions
        /\ (\A i \in 1..Len(series) : IsNaN(series[i].val)) => outlier_scores = <<>>

\* A series with a missing value between two values: the scores are fewer
\* than the input and keep the positions 1 and 3.
C18_Witness ==
    /\ pc = "scored"
    /\ Len(series) = 3
    /\ ~IsNaN(series[1].val) /\ IsNaN(series[2].val) /\ ~IsNaN(series[3].val)
    /\ Len(outlier_scores) = 2
    /\ outlier_scores[2].idx = 3

---------------------------------------------------------------------------
(* Claims about the economic indicators block.                             *)

\* The column of the table read is numeric, or text that line 225 casts.
Coercible(column) ==
    \/ column.dtype = "float64"
    \/ \A i \in 1..Len(column.strs) :
          /\ \E j \in 1..Len(column.strs[i]) : IsDigit(column.strs[i][j])
          /\ \A j \in 1..Len(column.strs[i]) :
                IsDigit(column.strs[i][j]) \/ column.strs[i][j] = ","

\* C19: after the economic block, for every column of the table read that is
\* numeric or coercible, the sibling column <name>_Normalized exists if and
\* only if the column's largest value is strictly above its smallest, and
\* then holds (value - min) / (max - min); a column that fails coercion is
\* left as read and gets no sibling; the table has no other new column.
C19_IndicatorNormalizedIffRange ==
    pc = "economic_processed" =>
        /\ DOMAIN df.cols =
              DOMAIN read_df.cols
                 \cup {normalized_name(c) : c \in {n \in DOMAIN read_df.cols :
                                                     HasCol(df, normalized_name(n))}}
        /\ \A c \in DOMAIN read_df.cols :
              IF Coercible(read_df.cols[c])
              THEN LET vals == df.cols[c].vals
                       min == Lowest(Present(vals))
                       max == Highest(Present(vals))
                   IN  /\ df.cols[c].dtype = "float64"
                       /\ HasCol(df, normalized_name(c)) <=>
                             \E a \in Present(vals) : \E b \in Present(vals) : RLt(a, b)
                       /\ HasCol(df, normalized_name(c)) =>
                             df.cols[normalized_name(c)].vals =
                                 [i \in 1..Len(vals) |->
                                     RDiv(RSub(vals[i], min), RSub(max, min))]
              ELSE /\ df.cols[c] = read_df.cols[c]
                   /\ ~HasCol(df, normalized_name(c))

\* A table where the first column fails coercion, a later column is
\* normalised, and a third has a zero range.
C19_Witness ==
    /\ pc = "economic_processed"
    /\ ~Coercible(read_df.cols["CPI"])
    /\ HasCol(df, "GDP_Normalized")
    /\ HasCol(df, "Rate")
    /\ NumRows(df) >= 2
    /\ ~HasCol(df, "Rate_Normalized")
    /\ ~HasCol(df, "CPI_Normalized")

---------------------------------------------------------------------------
(* Claims about the preprocessing script as a whole.                       *)

\* The files the loop has entered are the first files of the list, each
\* once, in the order of the list.
AttemptedInOrder ==
    /\ Len(attempted) <= Len(stock_files)
    /\ \A i \in 1..Len(attempted) : attempted[i] = stock_files[i]

\* C21: an exception raised while one file is processed never keeps the
\* loop from the files after it, nor the economic indicators block and the
\* closing messages from running: no file is entered twice or out of order,
\* and the script always reaches its closing messages having entered every
\* file found exactly once and having run the economic indicators block.
C21_EveryFileAttemptedOnce ==
    /\ []AttemptedInOrder
    /\ <>(/\ pc = "completed"
          /\ attempted = stock_files
          /\ economic # "pending")

\* The first file failed on a sheet, the second could not be opened, and the
\* script still ended with its closing messages.
C21_Witness ==
    /\ pc = "completed"
    /\ Len(stock_files) = 2
    /\ errors = stock_files
    /\ attempted = stock_files
    /\ economic = "failed"
    /\ xls = Unreadable

\* The sheet at position k of the workbook opened last has been saved.
Saved(k) ==
    \E i \in 1..Len(processed_files) :
        processed_files[i] = output_file(stock_files[file_path], k)

\* C22: the timeframe sheets of one file are processed independently: once
\* the loop has left a workbook, every sheet of it that can be processed has
\* been processed and saved, whichever other sheets of the workbook failed.
C22_SheetsProcessedIndependently ==
    (pc # "for_sheet" /\ file_path > 0) =>
        \A k \in 1..Len(xls) : sheet_processed(xls[k]) => Saved(k)

---------------------------------------------------------------------------
(* Claims about main.                                                      *)

\* The position of a script in the order Yahoo, FRED, news, preprocessing.
Rank(script) == CHOOSE k \in 1..Len(Scripts) : Scripts[k] = script

\* The script has been started.
Started(k) == \E i \in 1..Len(started) : started[i].script = Scripts[k]

\* The script has been started and its run failed.
Failed(k) ==
    \E i \in 1..Len(started) :
        started[i].script = Scripts[k] /\ started[i].outcome # "completed"

\* C23: the scripts start in the order Yahoo, FRED, news, preprocessing,
\* with Yahoo first; when main has returned, preprocessing was run if and
\* only if the Yahoo step succeeded; after a failed Yahoo step main has
\* returned False and no other script was started; and main returns True
\* exactly when Yahoo and preprocessing succeeded, whatever the optional
\* FRED and news steps did.
C23_PreprocessingIffMarketData ==
    /\ \A i \in 1..Len(started) : \A j \in 1..Len(started) :
          i < j => Rank(started[i].script) < Rank(started[j].script)
    /\ started # <<>> => started[1].script = Scripts[1]
    /\ pc = "returned" =>
          /\ Started(1)
          /\ Started(4) <=> ~Failed(1)
          /\ Failed(1) => (success = FALSE /\ Len(started) = 1)
          /\ (success = TRUE) <=> (~Failed(1) /\ ~Failed(4))

\* Both optional steps failed, preprocessing ran after them and main
\* returned True.
C23_Witness ==
    /\ pc = "returned"
    /\ Failed(2)
    /\ Failed(3)
    /\ Started(4)
    /\ success = TRUE

---------------------------------------------------------------------------
(* Claims about the default threshold of detect_outliers.                  *)

\* Nothing is flagged.
NoneFlagged == \A j \in 1..Len(outliers) : ~outliers[j].val

\* C25 (as amended): detect_outliers with the default threshold 3 flags no
\* element of any series that has at most 9 non-missing values, whatever
\* those values are.
C25_NoOutlierUpToNineValues ==
    (pc = "detected" /\ threshold = DefaultThreshold /\ Len(ValidValues) <= 9) =>
        NoneFlagged

\* Nine values, eight of them equal: the ninth has the largest z-score nine
\* values allow, the root of 8, and is not flagged.
C25_Witness ==
    /\ pc = "detected"
    /\ threshold = DefaultThreshold
    /\ Len(ValidValues) = 9
    /\ \A j \in 1..8 : ValidValues[j] = ValidValues[1]
    /\ ValidValues[9] # ValidValues[1]
    /\ NoneFlagged

\* C25 as stated: no element is flagged in a series of at most 10
\* non-missing values.
C25_NoOutlierUpToTenValues ==
    (pc = "detected" /\ threshold = DefaultThreshold /\ Len(ValidValues) <= 10) =>
        NoneFlagged

=============================================================================
